---- MODULE Spec2Model ----
(***************************************************************************)
(* A model of the value access layer of shopify_function: the accessors    *)
(* that `typegen` generates for query structs (lazy, memoized, resolved    *)
(* through a process-wide interned field-name cell), the sequence          *)
(* iterator, the derive(Deserialize) decode, and the generated decodes of  *)
(* unions and plain enumerations.                                          *)
(*                                                                         *)
(* The host side (Value, Context, CachedInternedStringId and the           *)
(* Deserialize impls of the primitive types) lives in the                  *)
(* shopify_function_wasm_api crate; it is modelled from its contract.      *)
(***************************************************************************)
EXTENDS Integers, Sequences, FiniteSets, TLC

(***************************************************************************)
(* Bounds of the model.                                                    *)
(***************************************************************************)
\* The operations one process performs in a run of the model.
\* The longest string handed to Decimal's decode.
MaxChars == 5

\* The largest number of children a container declares or a closure writes.
MaxArity == 2

MaxSteps == 7

(***************************************************************************)
(* JSON values held by a store, tagged as Value is.                        *)
(***************************************************************************)
JNull == [tag |-> "null"]
JBool(b) == [tag |-> "bool", b |-> b]
JNum(n) == [tag |-> "number", n |-> n]
JStr(s) == [tag |-> "string", s |-> s]
JArr(items) == [tag |-> "array", items |-> items]
JObj(keys, vals) == [tag |-> "object", keys |-> keys, vals |-> vals]

Ok(v) == [ok |-> TRUE, val |-> v]
Err(e) == [ok |-> FALSE, err |-> e]
InvalidType == "InvalidType"
MissingOrInvalidField == "MissingOrInvalidField"

None == [some |-> FALSE]
Some(v) == [some |-> TRUE, v |-> v]

RECURSIVE IndexOf(_, _, _)
IndexOf(keys, name, i) ==
  IF i > Len(keys) THEN 0
  ELSE IF keys[i] = name THEN i
  ELSE IndexOf(keys, name, i + 1)

\* Value::is_null
IsNull(v) == v.tag = "null"

\* Value::get_obj_prop: the child under `name`, a Null value when the key is
\* absent or the value is no object.
GetObjProp(v, name) ==
  IF v.tag # "object" THEN JNull
  ELSE LET i == IndexOf(v.keys, name, 1)
       IN IF i = 0 THEN JNull ELSE v.vals[i]

\* Deserialize of the primitive types: a direct tag check.
DeserializePrim(type, v) ==
  CASE type = "Int" -> IF v.tag = "number" THEN Ok(v.n) ELSE Err(InvalidType)
    [] type = "String" -> IF v.tag = "string" THEN Ok(v.s) ELSE Err(InvalidType)
    [] type = "Bool" -> IF v.tag = "bool" THEN Ok(v.b) ELSE Err(InvalidType)
    [] type = "OptString" ->
         IF v.tag = "null" THEN Ok(None)
         ELSE IF v.tag = "string" THEN Ok(Some(v.s)) ELSE Err(InvalidType)
    [] type = "OptInt" ->
         IF v.tag = "null" THEN Ok(None)
         ELSE IF v.tag = "number" THEN Ok(Some(v.n)) ELSE Err(InvalidType)

(***************************************************************************)
(* The generated query struct of the model: a cart line with two selected  *)
(* fields, as in example_with_targets' cart query.                         *)
(***************************************************************************)
Fields == {"quantity", "title"}
FieldType(f) == IF f = "quantity" THEN "Int" ELSE "OptString"

Line(q, t) == JObj(<<"quantity", "title">>, <<q, t>>)

\* The inputs a Context may be created with: the cart lines the generated
\* struct is decoded from, and an array of numbers read through Iter.
StoreInputs ==
  { [lines |-> <<Line(JNum(1), JStr("a")), Line(JNum(2), JNull)>>,
     codes |-> JArr(<<JNum(7), JNum(8)>>)],
    [lines |-> <<Line(JNum(5), JStr("b")), Line(JStr("foo"), JStr("c"))>>,
     codes |-> JArr(<<JNum(9), JStr("x")>>)] }

Uninit == [init |-> FALSE]
Unset == [set |-> FALSE]
Memo(v) == [set |-> TRUE, v |-> v]

VARIABLES
  stores,     \* the Contexts created in this process: each one's input lines
  interned,   \* per store, the literals the host interned, in token order
  cell,       \* per field, the accessor's static CachedInternedStringId
  insts,      \* the decoded struct instances: root handle and OnceCells
  iters,      \* the sequence iterators: value, index, len
  status,     \* "running", or "panicked" once an unwrap has aborted
  probe,      \* instrumentation: host calls and accessor returns
  arg,        \* the value handed to an eager decode or to an encode
  res,        \* what that call returned, Pending before it ran
  pc,         \* the export wrapper's position
  context,    \* the export wrapper's Context: output builder and host side
  invocation  \* the export wrapper's locals: input, function, result

vars == <<stores, interned, cell, insts, iters, status, probe, arg, res,
          pc, context, invocation>>
lazy == <<stores, interned, cell, insts, iters, status, probe>>
export == <<pc, context, invocation>>
eager == <<arg, res, export>>

Pending == [op |-> "none"]

ZeroPerField == [f \in Fields |-> 0]

NotExported == [op |-> "none"]

InitLazy ==
  /\ pc = "idle"
  /\ context = NotExported
  /\ invocation = NotExported
  /\ stores = <<>>
  /\ interned = <<>>
  /\ cell = [f \in Fields |-> Uninit]
  /\ insts = <<>>
  /\ iters = <<>>
  /\ status = "running"
  /\ probe = [intern |-> ZeroPerField, steps |-> 0, iterErrs |-> 0,
              calls |-> <<>>, byToken |-> <<>>, byString |-> <<>>,
              decodes |-> <<>>, errs |-> <<>>, returned |-> <<>>,
              tokenFrom |-> <<>>]

\* Context::new / Context::new_with_input: a fresh store with its own,
\* empty intern table.
NewContext(input) ==
  /\ status = "running"
  /\ probe.steps < MaxSteps
  /\ stores' = Append(stores, input)
  /\ interned' = Append(interned, <<>>)
  /\ probe' = [probe EXCEPT !.steps = @ + 1]
  /\ UNCHANGED <<cell, insts, iters, status, eager>>

\* The OnceCell fields a generated struct is built with.
OnceCellFieldValues(s, o) == [f \in Fields |-> Unset]

\* A decode that fetches and decodes every field up front.
EagerLookups(s, o) == [f \in Fields |-> 1]

\* The lookups a decode of the struct performs on its root value.
DeserializeLookups(s, o) == [f \in Fields |-> 0]

\* Deserialize for a generated struct: keeps the handle, decodes nothing.
Deserialize(s, o) ==
  /\ status = "running"
  /\ probe.steps < MaxSteps
  /\ s \in 1..Len(stores)
  /\ o \in 1..Len(stores[s].lines)
  /\ insts' = Append(insts, [store |-> s, obj |-> o,
                             memo |-> OnceCellFieldValues(s, o)])
  /\ probe' = [probe EXCEPT
       !.steps = @ + 1,
       !.calls = Append(@, ZeroPerField),
       !.byToken = Append(@, DeserializeLookups(s, o)),
       !.byString = Append(@, ZeroPerField),
       !.decodes = Append(@, DeserializeLookups(s, o)),
       !.errs = Append(@, ZeroPerField),
       !.returned = Append(@, [f \in Fields |-> {}]),
       !.tokenFrom = Append(@, ZeroPerField)]
  /\ UNCHANGED <<stores, interned, cell, iters, status, eager>>

\* CachedInternedStringId::load_from_value: the host is asked to intern the
\* literal only while the cell is uninitialized.
LoadNeedsIntern(f) == cell[f] = Uninit

\* The host's intern call on store s: the literal gets the next token of
\* that store's table.
InternTable(s, f) ==
  IF LoadNeedsIntern(f) THEN Append(interned[s], f) ELSE interned[s]

\* What load_from_value returns: the token, with the store that issued it
\* (the store is kept for the model's bookkeeping only: the cell holds the
\* integer alone).
LoadFromValue(s, f) ==
  IF LoadNeedsIntern(f)
  THEN [init |-> TRUE, token |-> Len(interned[s]) + 1, store |-> s]
  ELSE cell[f]

Trap == [tag |-> "trap"]

\* Value::get_interned_obj_prop: the store resolves the token in its own
\* table. A token the store never issued names nothing the store knows:
\* the host may answer Null or trap.
GetInternedObjProp(root, table, token) ==
  IF token \in 1..Len(table)
  THEN {GetObjProp(root, table[token])}
  ELSE {JNull, Trap}

\* A generated accessor that fetches the child by its name.
LookupByString(f) == "string"

\* How the accessor fetches the child: by interned token.
AccessorLookupKind(f) == "token"

\* A memo cell that all the instances of the struct type share.
SharedCell(i) == 1

\* The instance whose OnceCell field an accessor call on instance i reads
\* and fills: self.
SelfCell(i) == i

\* An accessor that runs the closure on every call.
AlwaysInit(i, f) == TRUE

\* OnceCell::get_or_init runs its closure only on an empty cell.
NeedsInit(i, f) == insts[SelfCell(i)].memo[f] = Unset

\* What a call hands back to business logic: a plain value.
Returned(v) == [value |-> v]
ReturnedErr(e) == [error |-> e]

\* A call that hands the decode error back instead of unwrapping.
PropagateDecode(r) ==
  [panic |-> FALSE,
   ret |-> IF r.ok THEN Returned(r.val) ELSE ReturnedErr(r.err)]

\* The `.unwrap()` on a decode result: the value, or a panic.
UnwrapDecode(r) ==
  IF r.ok THEN [panic |-> FALSE, ret |-> Returned(r.val)] ELSE [panic |-> TRUE]

Bump(counts, i, f) == [counts EXCEPT ![i][f] = @ + 1]

\* The generated accessor of field f, called on instance i.
Accessor(i, f) ==
  /\ status = "running"
  /\ i \in 1..Len(insts)
  /\ probe.steps < MaxSteps
  /\ LET s == insts[i].store
         root == stores[s].lines[insts[i].obj]
         table == InternTable(s, f)
         id == LoadFromValue(s, f)
         byToken == AccessorLookupKind(f) = "token"
         called == [probe EXCEPT
                      !.intern[f] = IF LoadNeedsIntern(f) THEN @ + 1 ELSE @,
                      !.steps = @ + 1,
                      !.calls[i][f] = @ + 1]
     IN
     /\ interned' = [interned EXCEPT ![s] = table]
     /\ cell' = [cell EXCEPT ![f] = id]
     /\ UNCHANGED <<stores, iters, eager>>
     /\ IF NeedsInit(i, f)
        THEN \E child \in (IF byToken
                           THEN GetInternedObjProp(root, table, id.token)
                           ELSE {GetObjProp(root, f)}) :
               LET looked == [called EXCEPT
                      !.byToken = IF byToken THEN Bump(@, i, f) ELSE @,
                      !.byString = IF byToken THEN @ ELSE Bump(@, i, f),
                      !.tokenFrom[i][f] = IF byToken THEN id.store ELSE @]
               IN IF child = Trap
                  THEN /\ status' = "panicked"
                       /\ insts' = insts
                       /\ probe' = looked
                  ELSE LET r == DeserializePrim(FieldType(f), child)
                           u == UnwrapDecode(r)
                           decoded == [looked EXCEPT
                              !.decodes = Bump(@, i, f),
                              !.errs = IF r.ok THEN @ ELSE Bump(@, i, f)]
                       IN IF u.panic
                          THEN /\ status' = "panicked"
                               /\ insts' = insts
                               /\ probe' = decoded
                          ELSE /\ status' = status
                               /\ insts' = [insts EXCEPT ![SelfCell(i)].memo[f] = Memo(u.ret)]
                               /\ probe' = [decoded EXCEPT
                                              !.returned[i][f] = @ \cup {u.ret}]
        ELSE /\ status' = status
             /\ insts' = insts
             /\ probe' = [called EXCEPT
                            !.returned[i][f] = @ \cup {insts[SelfCell(i)].memo[f].v}]

\* Value::array_len: the length of an array value, None otherwise.
ArrayLen(v) == IF v.tag = "array" THEN Some(Len(v.items)) ELSE None

\* Value::get_at_index: the i-th element of an array, the i-th value of an
\* object; an index out of range fails fast.
GetAtIndex(v, i) ==
  IF v.tag = "array" /\ i < Len(v.items) THEN v.items[i + 1]
  ELSE IF v.tag = "object" /\ i < Len(v.vals) THEN v.vals[i + 1]
  ELSE Trap

\* Value::obj_len and Value::get_obj_key_at_index.
ObjLen(v) == IF v.tag = "object" THEN Some(Len(v.keys)) ELSE None
GetObjKeyAtIndex(v, i) ==
  IF v.tag = "object" /\ i < Len(v.keys) THEN Some(v.keys[i + 1]) ELSE None

\* Deserialize for Iter<T>: an iterator at index 0 over an array value,
\* InvalidType for any other value.
IterDecode(value) ==
  LET len == ArrayLen(value)
  IN IF len.some
     THEN Ok([value |-> value, index |-> 0, len |-> len.v])
     ELSE Err(InvalidType)

\* An index that is not advanced.
SameIndex(index) == index

\* Iter::next's `self.index += 1`.
NextIndex(index) == index + 1

\* An exhaustion test that lets index len through.
IterPastEnd(it) == it.index > it.len

\* Iter::next's exhaustion test.
IterExhausted(it) == it.index >= it.len

\* The get_at_index calls of successive next calls on an iterator, with
\* T = i64, until one returns None or panics.
RECURSIVE IterCalls(_)
IterCalls(it) ==
  IF IterExhausted(it) THEN <<>>
  ELSE LET value == GetAtIndex(it.value, it.index)
       IN <<[on |-> it.value, index |-> it.index]>>
            \o (IF DeserializePrim("Int", value).ok
                THEN IterCalls([it EXCEPT !.index = NextIndex(@)])
                ELSE <<>>)

\* The values of store s an Iter may be decoded from: the array of numbers,
\* or (a type error) the first cart line.
IterSource(s, what) ==
  IF what = "codes" THEN stores[s].codes ELSE stores[s].lines[1]

\* Iter::deserialize called on a value of store s.
IterDeserialize(s, what) ==
  /\ status = "running"
  /\ s \in 1..Len(stores)
  /\ probe.steps < MaxSteps
  /\ LET r == IterDecode(IterSource(s, what))
     IN IF r.ok
        THEN /\ iters' = Append(iters, [value |-> r.val.value,
                                        index |-> r.val.index,
                                        len |-> r.val.len,
                                        out |-> <<>>, errs |-> 0])
             /\ probe' = [probe EXCEPT !.steps = @ + 1]
        ELSE /\ iters' = iters
             /\ probe' = [probe EXCEPT !.iterErrs = 1, !.steps = @ + 1]
  /\ UNCHANGED <<stores, interned, cell, insts, status, eager>>

\* Iter::next, with T = i64.
IterNext(k) ==
  /\ status = "running"
  /\ k \in 1..Len(iters)
  /\ probe.steps < MaxSteps
  /\ LET it == iters[k]
     IN IF IterExhausted(it)
        THEN /\ iters' = [iters EXCEPT ![k].out = Append(@, None)]
             /\ status' = status
        ELSE LET value == GetAtIndex(it.value, it.index)
                 u == UnwrapDecode(DeserializePrim("Int", value))
             IN IF u.panic
                THEN /\ iters' = [iters EXCEPT ![k].index = NextIndex(@),
                                               ![k].errs = @ + 1]
                     /\ status' = "panicked"
                ELSE /\ iters' = [iters EXCEPT ![k].index = NextIndex(@),
                                               ![k].out = Append(@, Some(u.ret))]
                     /\ status' = status
  /\ probe' = [probe EXCEPT !.steps = @ + 1]
  /\ UNCHANGED <<stores, interned, cell, insts, eager>>

(***************************************************************************)
(* JsonValue, the owned mirror of a Value.                                 *)
(***************************************************************************)
JvNull == [j |-> "Null"]
JvBoolean(b) == [j |-> "Boolean", b |-> b]
JvNumber(n) == [j |-> "Number", n |-> n]
JvString(s) == [j |-> "String", s |-> s]
JvArray(items) == [j |-> "Array", items |-> items]
JvObject(map) == [j |-> "Object", map |-> map]

\* A push onto a list of entries, which keeps the order of arrival.
MapPush(map, key, val) == Append(map, <<key, val>>)

\* BTreeMap::insert: the entry under key is set, a former one replaced.
\* An insert that loses the value.
MapInsertNull(map, key, val) ==
  [k \in DOMAIN map \cup {key} |-> IF k = key THEN JvNull ELSE map[k]]

\* BTreeMap::insert.
MapInsert(map, key, val) ==
  [k \in DOMAIN map \cup {key} |-> IF k = key THEN val ELSE map[k]]

RECURSIVE JsonDeserialize(_), JsonArrayFrom(_, _, _), JsonObjectFrom(_, _, _)

\* JsonValue::deserialize.
JsonDeserialize(v) ==
  IF IsNull(v) THEN Ok(JvNull)
  ELSE IF v.tag = "bool" THEN Ok(JvBoolean(v.b))
  ELSE IF v.tag = "number" THEN Ok(JvNumber(v.n))
  ELSE IF v.tag = "string" THEN Ok(JvString(v.s))
  ELSE IF ArrayLen(v).some THEN JsonArrayFrom(v, 0, <<>>)
  ELSE IF ObjLen(v).some THEN JsonObjectFrom(v, 0, <<>>)
  ELSE Err(InvalidType)

\* The loop over an array's elements, from index i on.
JsonArrayFrom(v, i, array) ==
  IF i >= ArrayLen(v).v THEN Ok(JvArray(array))
  ELSE LET item == JsonDeserialize(GetAtIndex(v, i))
       IN IF item.ok THEN JsonArrayFrom(v, i + 1, Append(array, item.val))
          ELSE item

\* The loop over an object's entries, from index i on.
JsonObjectFrom(v, i, object) ==
  IF i >= ObjLen(v).v THEN Ok(JvObject(object))
  ELSE LET key == GetObjKeyAtIndex(v, i)
       IN IF ~key.some THEN Err(InvalidType)
          ELSE LET item == JsonDeserialize(GetAtIndex(v, i))
               IN IF item.ok
                  THEN JsonObjectFrom(v, i + 1, MapInsert(object, key.v, item.val))
                  ELSE item

\* The get_at_index calls of JsonValue::deserialize, in call order: one
\* per element or entry, followed by the calls of the child's decode; a
\* child that fails to decode ends the loop.
RECURSIVE JsonCalls(_), JsonArrayCalls(_, _), JsonObjectCalls(_, _)
JsonCalls(v) ==
  IF v.tag \in {"null", "bool", "number", "string"} THEN <<>>
  ELSE IF ArrayLen(v).some THEN JsonArrayCalls(v, 0)
  ELSE IF ObjLen(v).some THEN JsonObjectCalls(v, 0)
  ELSE <<>>

JsonArrayCalls(v, i) ==
  IF i >= ArrayLen(v).v THEN <<>>
  ELSE LET item == GetAtIndex(v, i)
       IN <<[on |-> v, index |-> i]>> \o JsonCalls(item)
            \o (IF JsonDeserialize(item).ok THEN JsonArrayCalls(v, i + 1)
                ELSE <<>>)

JsonObjectCalls(v, i) ==
  IF i >= ObjLen(v).v THEN <<>>
  ELSE IF ~GetObjKeyAtIndex(v, i).some THEN <<>>
  ELSE LET item == GetAtIndex(v, i)
       IN <<[on |-> v, index |-> i]>> \o JsonCalls(item)
            \o (IF JsonDeserialize(item).ok THEN JsonObjectCalls(v, i + 1)
                ELSE <<>>)

(***************************************************************************)
(* derive(Deserialize): an eager decode of a struct with named fields.     *)
(***************************************************************************)
\* Deserialize of a field's type.
DeserializeType(type, v) ==
  CASE type = "Iter" -> IterDecode(v)
    [] type = "Json" -> JsonDeserialize(v)
    [] OTHER -> DeserializePrim(type, v)

\* Default::default of a field's type.
DefaultOf(type) ==
  CASE type = "String" -> ""
    [] type = "Int" -> 0
    [] type = "Bool" -> FALSE
    [] OTHER -> None

\* The struct the derive is applied to, as in the derive tests: two
\* defaulted fields, a required one, an optional one, a sequence and a
\* free-form JSON field.
DeriveFields ==
  << [ident |-> "field_a", rename |-> None, has_default |-> TRUE, type |-> "String"],
     [ident |-> "field_b", rename |-> None, has_default |-> TRUE, type |-> "Int"],
     [ident |-> "field_c", rename |-> None, has_default |-> FALSE, type |-> "Bool"],
     [ident |-> "option", rename |-> None, has_default |-> FALSE, type |-> "OptString"],
     [ident |-> "items", rename |-> None, has_default |-> FALSE, type |-> "Iter"],
     [ident |-> "meta", rename |-> None, has_default |-> FALSE, type |-> "Json"] >>

\* The struct-level rename_all attribute.
RenameAll == Some("camelCase")

\* convert_case's to_case on the identifiers of the struct.
ToCase(ident, style) ==
  IF style = "camelCase"
  THEN CASE ident = "field_a" -> "fieldA"
         [] ident = "field_b" -> "fieldB"
         [] ident = "field_c" -> "fieldC"
         [] ident = "field_one" -> "fieldOne"
         [] ident = "field_two" -> "fieldTwo"
         [] ident = "field_three" -> "fieldThree"
         [] ident = "original_name" -> "originalName"
         [] ident = "unchanged_field" -> "unchangedField"
         [] OTHER -> ident
  ELSE IF style = "kebab-case"
  THEN CASE ident = "field_a" -> "field-a"
         [] ident = "field_b" -> "field-b"
         [] ident = "field_c" -> "field-c"
         [] ident = "field_one" -> "field-one"
         [] ident = "field_two" -> "field-two"
         [] ident = "field_three" -> "field-three"
         [] ident = "original_name" -> "original-name"
         [] ident = "unchanged_field" -> "unchanged-field"
         [] OTHER -> ident
  ELSE ident

\* A property name that puts the struct's case style before the field's
\* own rename.
CaseStyleFirst(fd, case_style) ==
  IF case_style.some THEN ToCase(fd.ident, case_style.v)
  ELSE IF fd.rename.some THEN fd.rename.v
  ELSE fd.ident

\* The property name a field is looked up under, in a struct with the
\* given case style: the field's rename, else the identifier in the case
\* style, else the identifier.
FieldName(fd, case_style) ==
  IF fd.rename.some THEN fd.rename.v
  ELSE IF case_style.some THEN ToCase(fd.ident, case_style.v)
  ELSE fd.ident

\* The property name of a field of the struct of the derive tests.
FieldNameStr(fd) == FieldName(fd, RenameAll)

\* A field decoded as if it carried no `default` attribute.
UndefaultedFieldValue(type, prop) == DeserializeType(type, prop)

\* The value of a field marked `default`.
DefaultedFieldValue(type, prop) ==
  IF IsNull(prop) THEN Ok(DefaultOf(type)) ELSE DeserializeType(type, prop)

\* A required field that falls back to its default on a Null value.
LenientFieldValue(type, prop) ==
  IF IsNull(prop) THEN Ok(DefaultOf(type)) ELSE DeserializeType(type, prop)

\* A field that is rejected when its value is Null.
StrictFieldValue(type, prop) ==
  IF IsNull(prop) THEN Err(MissingOrInvalidField) ELSE DeserializeType(type, prop)

\* The value of a field without `default`.
PlainFieldValue(type, prop) == DeserializeType(type, prop)

\* A decode that puts the type's default in the place of a field that
\* failed.
FieldOrDefault(r, type) == IF r.ok THEN r ELSE Ok(DefaultOf(type))

\* The `?` that ends a field's decode: its outcome, a failure included.
FieldTry(r, type) == r

\* One field initializer of the generated struct literal, the property
\* looked up under field_name_str.
FieldValue(fd, field_name_str, value) ==
  LET prop == GetObjProp(value, field_name_str)
  IN IF fd.has_default
     THEN DefaultedFieldValue(fd.type, prop)
     ELSE PlainFieldValue(fd.type, prop)

\* One field initializer of the struct of the derive tests.
DeriveFieldValue(fd, value) == FieldValue(fd, FieldNameStr(fd), value)

\* The struct literal, field by field, each initializer ending in `?`:
\* the fields decoded so far, the names looked up, the field that failed.
RECURSIVE StructFrom(_, _, _, _, _)
StructFrom(st, value, k, fields, looked) ==
  IF k > Len(st.fields)
  THEN [result |-> Ok(fields), looked |-> looked, failed |-> ""]
  ELSE LET fd == st.fields[k]
           name == FieldName(fd, st.rename_all)
           r == FieldTry(FieldValue(fd, name, value), fd.type)
           seen == Append(looked, name)
       IN IF r.ok
          THEN StructFrom(st, value, k + 1, MapInsert(fields, fd.ident, r.val), seen)
          ELSE [result |-> r, looked |-> seen, failed |-> fd.ident]

\* The struct literal of the struct of the derive tests.
DeriveFrom(value, k, fields, looked) ==
  StructFrom([rename_all |-> RenameAll, fields |-> DeriveFields],
             value, k, fields, looked)

\* The derived Deserialize::deserialize.
DeriveDeserialize(value) == DeriveFrom(value, 1, <<>>, <<>>)

\* The structs of the rename tests: a renamed field under a struct-level
\* rename_all, and a renamed field in a struct without one.
TestStructWithRename ==
  [rename_all |-> Some("camelCase"),
   fields |->
     << [ident |-> "field_one", rename |-> Some("customFieldName"),
         has_default |-> FALSE, type |-> "String"],
        [ident |-> "field_two", rename |-> None,
         has_default |-> FALSE, type |-> "Int"],
        [ident |-> "field_three", rename |-> Some("ANOTHER_CUSTOM_NAME"),
         has_default |-> FALSE, type |-> "Bool"] >>]

TestStructNoRenameAll ==
  [rename_all |-> None,
   fields |->
     << [ident |-> "original_name", rename |-> Some("different_name"),
         has_default |-> FALSE, type |-> "String"],
        [ident |-> "unchanged_field", rename |-> None,
         has_default |-> FALSE, type |-> "Int"] >>]

RenameStructs ==
  [TestStructWithRename |-> TestStructWithRename,
   TestStructNoRenameAll |-> TestStructNoRenameAll]

\* The derived deserialize of the named struct.
RenameDeserialize(name, value) ==
  StructFrom(RenameStructs[name], value, 1, <<>>, <<>>)

(***************************************************************************)
(* The Deserialize generated for an input object type, here                *)
(* FunctionTargetAResult with its optional status.                         *)
(***************************************************************************)
InputObjectFields == << [name |-> "status", type |-> "OptInt"] >>

\* One field initializer of the generated struct literal.
InputFieldValue(type, prop) == DeserializeType(type, prop)

RECURSIVE InputObjectFrom(_, _, _)
InputObjectFrom(value, k, fields) ==
  IF k > Len(InputObjectFields) THEN Ok(fields)
  ELSE LET fd == InputObjectFields[k]
           r == InputFieldValue(fd.type, GetObjProp(value, fd.name))
       IN IF r.ok
          THEN InputObjectFrom(value, k + 1, MapInsert(fields, fd.name, r.val))
          ELSE r

InputObjectDeserialize(value) == InputObjectFrom(value, 1, <<>>)

(***************************************************************************)
(* The Deserialize generated for a union selected with `__typename`, here  *)
(* `union Result = Ok | Err` of the macro hygiene test.                    *)
(***************************************************************************)
UnionVariants == <<"Ok", "Err">>

Other == [variant |-> "Other"]

\* The variant's own decode, a generated struct: it keeps the handle.
VariantDeserialize(name, value) ==
  Ok([variant |-> name, wasm_value |-> value, value |-> Unset])

\* A decode that rejects a discriminator it does not know.
FailOnUnknown(typename_str) == Err(InvalidType)

\* The `_ =>` arm of the match on the discriminator.
UnionFallback(typename_str) == Ok(Other)

\* The match arms, tried in declaration order from arm k on; `ran` lists
\* the variant decodes that were run.
RECURSIVE UnionMatch(_, _, _)
UnionMatch(typename_str, value, k) ==
  IF k > Len(UnionVariants)
  THEN [result |-> UnionFallback(typename_str), ran |-> <<>>]
  ELSE IF typename_str = UnionVariants[k]
  THEN [result |-> VariantDeserialize(UnionVariants[k], value),
        ran |-> << [variant |-> UnionVariants[k], value |-> value] >>]
  ELSE UnionMatch(typename_str, value, k + 1)

\* A decode that takes a discriminator it cannot read for an unknown one.
OtherOnError(error) == [result |-> Ok(Other), ran |-> <<>>]

\* The `?` on the decode of the discriminator: the error is returned.
TypenameError(error) == [result |-> error, ran |-> <<>>]

UnionDeserialize(value) ==
  LET typename == GetObjProp(value, "__typename")
      typename_str == DeserializePrim("String", typename)
  IN IF typename_str.ok
     THEN UnionMatch(typename_str.val, value, 1)
     ELSE TypenameError(typename_str)

(***************************************************************************)
(* The impls generated for a plain enumeration, here                       *)
(* DiscountApplicationStrategy { FIRST, MAXIMUM }.                         *)
(***************************************************************************)
EnumValues == <<"FIRST", "MAXIMUM">>

\* names::enum_variant_ident of a declared member.
EnumVariantIdent(name) ==
  [variant |-> IF name = "FIRST" THEN "First" ELSE "Maximum"]

RECURSIVE FromStrArms(_, _)
FromStrArms(s, k) ==
  IF k > Len(EnumValues) THEN Other
  ELSE IF s = EnumValues[k] THEN EnumVariantIdent(EnumValues[k])
  ELSE FromStrArms(s, k + 1)

\* A from_str that ignores the case of its argument.
FromStrIgnoreCase(s) ==
  LET upper == CASE s \in {"first", "First"} -> "FIRST"
                 [] s \in {"maximum", "Maximum"} -> "MAXIMUM"
                 [] s = "Other" -> "OTHER"
                 [] OTHER -> s
  IN FromStrArms(upper, 1)

\* from_str: the match on the declared member names.
FromStr(s) == FromStrArms(s, 1)

EnumDeserialize(value) ==
  LET str_value == DeserializePrim("String", value)
  IN IF str_value.ok THEN Ok(FromStr(str_value.val)) ELSE str_value

(***************************************************************************)
(* The Deserialize generated for a one-of input object, here Operation     *)
(* { doThis: This } | { doThat: That } of the example with targets.        *)
(***************************************************************************)
OneOfFields ==
  << [name |-> "doThis", type |-> "This"],
     [name |-> "doThat", type |-> "That"] >>

\* names::enum_variant_ident of a declared field.
OneOfVariantIdent(name) == IF name = "doThis" THEN "DoThis" ELSE "DoThat"

\* The input objects the variants carry.
PayloadFields(type) ==
  IF type = "This" THEN << [name |-> "thisField", type |-> "String"] >>
  ELSE << [name |-> "thatField", type |-> "Int"] >>

RECURSIVE PayloadFrom(_, _, _, _)
PayloadFrom(defs, value, k, fields) ==
  IF k > Len(defs) THEN Ok(fields)
  ELSE LET r == InputFieldValue(defs[k].type, GetObjProp(value, defs[k].name))
       IN IF r.ok
          THEN PayloadFrom(defs, value, k + 1,
                           MapInsert(fields, defs[k].name, r.val))
          ELSE r

PayloadDeserialize(type, value) ==
  PayloadFrom(PayloadFields(type), value, 1, <<>>)

\* A decode that dispatches on the first key of any non-empty object.
FirstKey(obj_len) == obj_len >= 1

\* The test on obj_len that lets the decode go on.
SoleKey(obj_len) == obj_len = 1

\* The match on the sole key, from arm k on.
RECURSIVE OneOfMatch(_, _, _)
OneOfMatch(field_name, field_value, k) ==
  IF k > Len(OneOfFields) THEN Err(InvalidType)
  ELSE IF field_name = OneOfFields[k].name
  THEN LET value == PayloadDeserialize(OneOfFields[k].type, field_value)
       IN IF value.ok
          THEN Ok([variant |-> OneOfVariantIdent(OneOfFields[k].name),
                   value |-> value.val])
          ELSE value
  ELSE OneOfMatch(field_name, field_value, k + 1)

OneOfDeserialize(value) ==
  LET obj_len == ObjLen(value)
  IN IF ~obj_len.some THEN Err(InvalidType)
     ELSE IF ~SoleKey(obj_len.v) THEN Err(InvalidType)
     ELSE LET field_name == GetObjKeyAtIndex(value, 0)
          IN IF ~field_name.some THEN Err(InvalidType)
             ELSE OneOfMatch(field_name.v, GetAtIndex(value, 0), 1)

\* The get_at_index call of the one-of decode: index 0, once the object
\* is known to hold one entry with a readable key.
OneOfCalls(value) ==
  LET obj_len == ObjLen(value)
  IN IF ~obj_len.some THEN <<>>
     ELSE IF ~SoleKey(obj_len.v) THEN <<>>
     ELSE IF ~GetObjKeyAtIndex(value, 0).some THEN <<>>
     ELSE <<[on |-> value, index |-> 0]>>

(***************************************************************************)
(* The values the eager decodes are applied to.                            *)
(***************************************************************************)
Absent == [tag |-> "absent"]

RECURSIVE KeysOf(_, _, _), ValsOf(_, _, _)
KeysOf(names, ch, i) ==
  IF i > Len(names) THEN <<>>
  ELSE IF ch[names[i]] = Absent THEN KeysOf(names, ch, i + 1)
  ELSE <<names[i]>> \o KeysOf(names, ch, i + 1)
ValsOf(names, ch, i) ==
  IF i > Len(names) THEN <<>>
  ELSE IF ch[names[i]] = Absent THEN ValsOf(names, ch, i + 1)
  ELSE <<ch[names[i]]>> \o ValsOf(names, ch, i + 1)

\* The object that holds, for every name, the chosen value, and no entry
\* for a name whose choice is Absent.
ObjectOf(names, ch) == JObj(KeysOf(names, ch, 1), ValsOf(names, ch, 1))

DeriveKeys == <<"fieldA", "fieldB", "fieldC", "option", "items", "meta">>
DeriveChoices(name) ==
  {Absent, JNull} \cup
  (CASE name = "fieldA" -> {JStr("test"), JNum(1)}
     [] name = "fieldB" -> {JNum(1), JStr("x")}
     [] name = "fieldC" -> {JBool(TRUE), JNum(1)}
     [] name = "option" -> {JStr("some value"), JNum(1)}
     [] name = "items" -> {JArr(<<JNum(1), JNum(2)>>), JStr("x")}
     [] OTHER -> {JStr("m"), JObj(<<"k">>, <<JNum(1)>>)})

DeriveInputs ==
  { ObjectOf(DeriveKeys,
             [fieldA |-> a, fieldB |-> b, fieldC |-> c,
              option |-> o, items |-> i, meta |-> m]) :
      a \in DeriveChoices("fieldA"), b \in DeriveChoices("fieldB"),
      c \in DeriveChoices("fieldC"), o \in DeriveChoices("option"),
      i \in DeriveChoices("items"), m \in DeriveChoices("meta") }

WithRenameKeys ==
  <<"customFieldName", "fieldOne", "field_one", "fieldTwo",
    "ANOTHER_CUSTOM_NAME", "fieldThree">>
NoRenameAllKeys ==
  <<"different_name", "original_name", "originalName", "unchanged_field",
    "unchangedField">>

\* Objects with or without a property under each name a field of the
\* rename structs could be looked up under.
RenameInputs ==
  { ObjectOf(WithRenameKeys,
             [customFieldName |-> a, fieldOne |-> b, field_one |-> c,
              fieldTwo |-> d, ANOTHER_CUSTOM_NAME |-> e, fieldThree |-> f]) :
      a \in {Absent, JStr("correct")}, b \in {Absent, JStr("incorrect")},
      c \in {Absent, JStr("ident")}, d \in {Absent, JNum(10)},
      e \in {Absent, JBool(FALSE)}, f \in {Absent, JBool(TRUE)} }
    \cup
  { ObjectOf(NoRenameAllKeys,
             [different_name |-> a, original_name |-> b, originalName |-> c,
              unchanged_field |-> d, unchangedField |-> e]) :
      a \in {Absent, JStr("works")}, b \in {Absent, JStr("ident")},
      c \in {Absent, JStr("cased")}, d \in {Absent, JNum(99)},
      e \in {Absent, JNum(7)} }

StatusInputs ==
  { JObj(<<>>, <<>>), JObj(<<"status">>, <<JNull>>),
    JObj(<<"status">>, <<JNum(200)>>), JObj(<<"status">>, <<JStr("foo")>>) }

UnionInputs ==
  { ObjectOf(<<"__typename", "value">>, [__typename |-> n, value |-> v]) :
      n \in {Absent, JNull, JNum(1), JStr("Ok"), JStr("Err"), JStr("ok"),
             JStr("Some"), JStr("")},
      v \in {Absent, JStr("test"), JNum(1)} }

ScalarInputs ==
  { JStr(s) : s \in {"FIRST", "MAXIMUM", "first", "First", "maximum",
                     "Maximum", "OTHER", "Other", ""} }
    \cup {JNull, JNum(1), JBool(TRUE), JArr(<<JStr("FIRST")>>)}

OneOfPayloads ==
  { JObj(<<"thisField">>, <<JStr("this field")>>),
    JObj(<<"thatField">>, <<JNum(42)>>), JNull }

OneOfKeys == {"doThis", "doThat", "other"}

OneOfInputs ==
  {JObj(<<>>, <<>>)}
    \cup { JObj(<<k>>, <<v>>) : k \in OneOfKeys, v \in OneOfPayloads }
    \cup { JObj(ks, <<v1, v2>>) :
             ks \in {q \in OneOfKeys \X OneOfKeys : q[1] # q[2]},
             v1 \in OneOfPayloads, v2 \in OneOfPayloads }

\* A value whose tag is none of null, bool, number, string, array, object.
Untagged == [tag |-> "other"]

JsonLeaves == {JNull, JBool(TRUE), JNum(123), JStr("string"), Untagged}

JsonChildren ==
  JsonLeaves \cup
    {JArr(<<JNum(1), JNum(2), JNum(3)>>), JObj(<<"key">>, <<JStr("value")>>)}

\* Arrays and objects over the children, the object of JsonValue's
\* test_deserialize among them, and their own children.
JsonInputs ==
  JsonChildren
    \cup {JNum(1), JNum(2), JNum(3), JStr("value"), JArr(<<>>), JObj(<<>>, <<>>)}
    \cup { JArr(<<a>>) : a \in JsonChildren }
    \cup { JArr(<<a, b>>) : a \in JsonChildren, b \in JsonChildren }
    \cup { JObj(<<"b", "a">>, <<x, y>>) : x \in JsonChildren, y \in JsonChildren }
    \cup { JObj(<<"null", "string", "number", "boolean", "object", "array">>,
                <<JNull, JStr("string"), JNum(123), JBool(TRUE),
                  JObj(<<"key">>, <<JStr("value")>>),
                  JArr(<<JNum(1), JNum(2), JNum(3)>>)>>) }

DecodeInputs ==
  JsonInputs \cup DeriveInputs \cup StatusInputs \cup UnionInputs \cup ScalarInputs
    \cup OneOfInputs \cup RenameInputs

\* derive(Deserialize)'s decode applied to the value.
DeriveDecode ==
  /\ res = Pending
  /\ res' = [op |-> "derive"] @@ DeriveDeserialize(arg)
  /\ UNCHANGED <<arg, lazy, export>>

\* derive(Deserialize)'s decode of one of the rename structs applied to
\* the value.
RenameDecode ==
  /\ res = Pending
  /\ \E name \in DOMAIN RenameStructs :
       res' = [op |-> "rename", struct |-> name] @@ RenameDeserialize(name, arg)
  /\ UNCHANGED <<arg, lazy, export>>

\* The generated input object's decode applied to the value.
InputObjectDecode ==
  /\ res = Pending
  /\ res' = [op |-> "input_object", result |-> InputObjectDeserialize(arg)]
  /\ UNCHANGED <<arg, lazy, export>>

\* The generated union's decode applied to the value.
UnionDecode ==
  /\ res = Pending
  /\ res' = [op |-> "union"] @@ UnionDeserialize(arg)
  /\ UNCHANGED <<arg, lazy, export>>

\* The generated enumeration's decode applied to the value.
EnumDecode ==
  /\ res = Pending
  /\ res' = [op |-> "enum", result |-> EnumDeserialize(arg)]
  /\ UNCHANGED <<arg, lazy, export>>

\* The generated one-of input object's decode applied to the value.
OneOfDecode ==
  /\ res = Pending
  /\ res' = [op |-> "one_of", result |-> OneOfDeserialize(arg),
             calls |-> OneOfCalls(arg)]
  /\ UNCHANGED <<arg, lazy, export>>

\* JsonValue's decode applied to the value.
JsonDecode ==
  /\ res = Pending
  /\ res' = [op |-> "json", result |-> JsonDeserialize(arg),
             calls |-> JsonCalls(arg)]
  /\ UNCHANGED <<arg, lazy, export>>

\* Iter's decode applied to the value, and next called on the iterator
\* until it returns None or panics.
IterCollect ==
  /\ res = Pending
  /\ LET r == IterDecode(arg)
     IN res' = [op |-> "iter", result |-> r,
                calls |-> IF r.ok THEN IterCalls(r.val) ELSE <<>>]
  /\ UNCHANGED <<arg, lazy, export>>

InitDecode == InitLazy /\ arg \in DecodeInputs /\ res = Pending

NextDecode ==
  \/ DeriveDecode
  \/ RenameDecode
  \/ InputObjectDecode
  \/ UnionDecode
  \/ EnumDecode
  \/ OneOfDecode
  \/ JsonDecode
  \/ IterCollect

SpecDecode == InitDecode /\ [][NextDecode]_vars

(***************************************************************************)
(* The write side of a Context: the output builder records the writes in   *)
(* call order.  A writer is the builder as seen by the running closure:    *)
(* the writes so far, the number of values this closure wrote, and "ok"    *)
(* until a write fails or the code panics; nothing runs after either.      *)
(***************************************************************************)
ArityMismatch == "ArityMismatch"

Writer(out) == [out |-> out, count |-> 0, status |-> "ok"]

Write(w, event) ==
  IF w.status = "ok"
  THEN [w EXCEPT !.out = Append(@, event), !.count = @ + 1]
  ELSE w

WriteNull(w) == Write(w, [w |-> "null"])
WriteBool(w, b) == Write(w, [w |-> "bool", b |-> b])
WriteF64(w, n) == Write(w, [w |-> "f64", n |-> n])
WriteUtf8Str(w, s) == Write(w, [w |-> "str", s |-> s])

\* A panic in the code that runs on the writer.
Panic(w) == IF w.status = "ok" THEN [w EXCEPT !.status = "panic"] ELSE w

\* A builder that accepts any number of writes.
NoArityCheck(written, declared) == TRUE

\* The count a container declared against the writes its closure made.
ArityCheck(written, declared) == written = declared

\* write_object / write_array up to the call of the closure: the writer
\* the closure receives.
ContainerBegin(w, tag, n) ==
  IF w.status = "ok"
  THEN [out |-> Append(w.out, [w |-> tag, n |-> n]), count |-> 0,
        status |-> "ok"]
  ELSE w

\* write_object / write_array from the closure's return on: `inner` is the
\* writer the closure left, `declared` the number of writes n stands for.
ContainerEnd(w, inner, declared) ==
  IF w.status # "ok" THEN w
  ELSE IF inner.status # "ok"
  THEN [w EXCEPT !.out = inner.out, !.status = inner.status]
  ELSE IF ~ArityCheck(inner.count, declared)
  THEN [w EXCEPT !.out = inner.out, !.status = ArityMismatch]
  ELSE [w EXCEPT !.out = inner.out, !.count = @ + 1]

WriteObjectBegin(w, n) == ContainerBegin(w, "object", n)
WriteObjectEnd(w, inner, n) == ContainerEnd(w, inner, 2 * n)
WriteArrayBegin(w, n) == ContainerBegin(w, "array", n)
WriteArrayEnd(w, inner, n) == ContainerEnd(w, inner, n)

(***************************************************************************)
(* finalize_output: the writes of the builder become the output the host   *)
(* sees.  The host reads them as one value: an object is followed by its   *)
(* n name/value pairs, an array by its n items.                            *)
(***************************************************************************)
NoValue == [ok |-> FALSE]

RECURSIVE ReadValue(_, _), ReadPairs(_, _, _, _, _), ReadItems(_, _, _, _)
ReadValue(out, i) ==
  IF i > Len(out) THEN NoValue
  ELSE CASE out[i].w = "null" -> [ok |-> TRUE, v |-> JNull, next |-> i + 1]
         [] out[i].w = "bool" ->
              [ok |-> TRUE, v |-> JBool(out[i].b), next |-> i + 1]
         [] out[i].w = "f64" ->
              [ok |-> TRUE, v |-> JNum(out[i].n), next |-> i + 1]
         [] out[i].w = "str" ->
              [ok |-> TRUE, v |-> JStr(out[i].s), next |-> i + 1]
         [] out[i].w = "object" -> ReadPairs(out, i + 1, out[i].n, <<>>, <<>>)
         [] OTHER -> ReadItems(out, i + 1, out[i].n, <<>>)

ReadPairs(out, i, n, keys, vals) ==
  IF n = 0 THEN [ok |-> TRUE, v |-> JObj(keys, vals), next |-> i]
  ELSE IF i > Len(out) \/ out[i].w # "str" THEN NoValue
  ELSE LET child == ReadValue(out, i + 1)
       IN IF child.ok
          THEN ReadPairs(out, child.next, n - 1, Append(keys, out[i].s),
                         Append(vals, child.v))
          ELSE NoValue

ReadItems(out, i, n, items) ==
  IF n = 0 THEN [ok |-> TRUE, v |-> JArr(items), next |-> i]
  ELSE LET child == ReadValue(out, i)
       IN IF child.ok
          THEN ReadItems(out, child.next, n - 1, Append(items, child.v))
          ELSE NoValue

\* The value the host reads from the committed writes, if they are exactly
\* one value.
OutputValue(out) ==
  LET r == ReadValue(out, 1)
  IN IF r.ok /\ r.next = Len(out) + 1 THEN Some(r.v) ELSE None

(***************************************************************************)
(* Serialize of a generated plain enumeration.                              *)
(***************************************************************************)
\* An arm that gives the name of the Rust variant.
VariantIdentStr(name) == EnumVariantIdent(name).variant

\* The string of an arm of as_str: the member's name as declared.
VariantNameLitStr(name) == name

\* The match of as_str: the declared members in order, then Other.
RECURSIVE AsStrArms(_, _)
AsStrArms(v, k) ==
  IF k > Len(EnumValues) THEN [panic |-> TRUE]
  ELSE IF v = EnumVariantIdent(EnumValues[k])
  THEN [panic |-> FALSE, str |-> VariantNameLitStr(EnumValues[k])]
  ELSE AsStrArms(v, k + 1)

\* An as_str that has a string for Other.
AsStrLenient(v) ==
  IF v = Other THEN [panic |-> FALSE, str |-> "OTHER"] ELSE AsStrArms(v, 1)

AsStr(v) == AsStrArms(v, 1)

EnumSerialize(v, w) ==
  LET str_value == AsStr(v)
  IN IF str_value.panic THEN Panic(w) ELSE WriteUtf8Str(w, str_value.str)

(***************************************************************************)
(* Serialize of a generated input object, here the results of the targets  *)
(* of the example: FunctionTargetAResult { status } and                    *)
(* FunctionTargetBResult { name, country }, all fields optional, and a     *)
(* FunctionResult that holds a discount application strategy.              *)
(***************************************************************************)
SerializeFields(type) ==
  CASE type = "FunctionTargetAResult" ->
         << [name |-> "status", type |-> "OptInt"] >>
    [] type = "FunctionTargetBResult" ->
         << [name |-> "name", type |-> "OptString"],
            [name |-> "country", type |-> "OptString"] >>
    [] type = "This" -> << [name |-> "thisField", type |-> "String"] >>
    [] type = "That" -> << [name |-> "thatField", type |-> "Int"] >>
    [] OTHER ->
         << [name |-> "discountApplicationStrategy", type |-> "Enum"] >>

\* Serialize of a field's type; None is written as null.
SerializeType(type, v, w) ==
  CASE type \in {"OptInt", "OptString"} /\ ~v.some -> WriteNull(w)
    [] type = "OptInt" -> WriteF64(w, v.v)
    [] type = "OptString" -> WriteUtf8Str(w, v.v)
    [] type = "Int" -> WriteF64(w, v)
    [] type = "Bool" -> WriteBool(w, v)
    [] type = "Enum" -> EnumSerialize(v, w)
    [] OTHER -> WriteUtf8Str(w, v)

\* The field statements of the closure, from field k on: the name, then
\* the value, for every declared field.
RECURSIVE FieldStatements(_, _, _, _)
FieldStatements(defs, self, k, w) ==
  IF k > Len(defs) THEN w
  ELSE FieldStatements(defs, self, k + 1,
         SerializeType(defs[k].type, self[defs[k].name],
                       WriteUtf8Str(w, defs[k].name)))

\* A count that leaves one field out.
OneFieldShort(type) == Len(SerializeFields(type)) - 1

\* The number of children write_object is called with: the number of
\* declared fields.
NumFields(type) == Len(SerializeFields(type))

StructSerialize(type, self, w) ==
  LET num_fields == NumFields(type)
      inner == FieldStatements(SerializeFields(type), self, 1,
                               WriteObjectBegin(w, num_fields))
  IN WriteObjectEnd(w, inner, num_fields)

(***************************************************************************)
(* Serialize of a generated one-of input object, here Operation.           *)
(***************************************************************************)
\* The match on self inside the closure, from arm k on: the arm of the
\* variant writes the field's name and then the value it carries.
RECURSIVE OneOfArms(_, _, _)
OneOfArms(self, k, ctx) ==
  IF k > Len(OneOfFields) THEN ctx
  ELSE IF self.variant = OneOfVariantIdent(OneOfFields[k].name)
  THEN StructSerialize(OneOfFields[k].type, self.value,
                       WriteUtf8Str(ctx, OneOfFields[k].name))
  ELSE OneOfArms(self, k + 1, ctx)

OneOfSerialize(self, w) ==
  WriteObjectEnd(w, OneOfArms(self, 1, WriteObjectBegin(w, 1)), 1)

(***************************************************************************)
(* A call of write_object or write_array with a closure that writes        *)
(* `written` children, each a null value, under the key "k" in an object.  *)
(***************************************************************************)
RECURSIVE ClosureWrites(_, _, _)
ClosureWrites(tag, written, w) ==
  IF written = 0 THEN w
  ELSE ClosureWrites(tag, written - 1,
         WriteNull(IF tag = "object" THEN WriteUtf8Str(w, "k") ELSE w))

WriteContainer(tag, written, declared, w) ==
  IF tag = "object"
  THEN WriteObjectEnd(w, ClosureWrites(tag, written,
                                       WriteObjectBegin(w, declared)), declared)
  ELSE WriteArrayEnd(w, ClosureWrites(tag, written,
                                      WriteArrayBegin(w, declared)), declared)

(***************************************************************************)
(* JsonValue::serialize.                                                   *)
(***************************************************************************)
\* The keys of the model in the order of Rust's String, the order in which
\* a BTreeMap iterates.
KeyOrder ==
  <<"a", "array", "b", "boolean", "key", "null", "number", "object", "string">>

RECURSIVE KeysInOrder(_, _)
KeysInOrder(map, k) ==
  IF k > Len(KeyOrder) THEN <<>>
  ELSE (IF KeyOrder[k] \in DOMAIN map THEN <<KeyOrder[k]>> ELSE <<>>)
         \o KeysInOrder(map, k + 1)

\* A serialize that writes a number as a string.
JsonNumberAsString(x, w) ==
  CASE x.j = "Null" -> WriteNull(w)
    [] x.j = "String" -> WriteUtf8Str(w, x.s)
    [] x.j = "Number" -> WriteUtf8Str(w, "number")
    [] OTHER -> WriteBool(w, x.b)

\* The arms of the match for Null, String, Number and Boolean.
JsonScalarSerialize(x, w) ==
  CASE x.j = "Null" -> WriteNull(w)
    [] x.j = "String" -> WriteUtf8Str(w, x.s)
    [] x.j = "Number" -> WriteF64(w, x.n)
    [] OTHER -> WriteBool(w, x.b)

RECURSIVE JsonSerialize(_, _), JsonObjectWrites(_, _, _, _),
          JsonArrayWrites(_, _, _)
JsonSerialize(x, w) ==
  CASE x.j = "Object" ->
         WriteObjectEnd(w,
           JsonObjectWrites(x.map, KeysInOrder(x.map, 1), 1,
                            WriteObjectBegin(w, Cardinality(DOMAIN x.map))),
           Cardinality(DOMAIN x.map))
    [] x.j = "Array" ->
         WriteArrayEnd(w,
           JsonArrayWrites(x.items, 1, WriteArrayBegin(w, Len(x.items))),
           Len(x.items))
    [] OTHER -> JsonScalarSerialize(x, w)

\* The closure of the Object arm: for each entry, the key then the value.
JsonObjectWrites(map, keys, k, ctx) ==
  IF k > Len(keys) THEN ctx
  ELSE JsonObjectWrites(map, keys, k + 1,
         JsonSerialize(map[keys[k]], WriteUtf8Str(ctx, keys[k])))

\* The closure of the Array arm: each value in turn.
JsonArrayWrites(a, k, ctx) ==
  IF k > Len(a) THEN ctx
  ELSE JsonArrayWrites(a, k + 1, JsonSerialize(a[k], ctx))

(***************************************************************************)
(* The values the encodes are applied to, each with the writes the         *)
(* builder already holds.                                                  *)
(***************************************************************************)
Priors ==
  { <<>>, << [w |-> "object", n |-> 1], [w |-> "str", s |-> "strategy"] >> }

EnumEncodeInputs ==
  { [kind |-> "enum", value |-> v, prior |-> p] :
      v \in {EnumVariantIdent(EnumValues[k]) : k \in 1..Len(EnumValues)}
              \cup {Other},
      p \in Priors }

StructEncodeInputs ==
  { [kind |-> "struct", type |-> "FunctionTargetAResult",
     value |-> [status |-> st], prior |-> p] :
      st \in {None, Some(200)}, p \in Priors }
    \cup
  { [kind |-> "struct", type |-> "FunctionTargetBResult",
     value |-> [name |-> n, country |-> c], prior |-> p] :
      n \in {None, Some("new name")}, c \in {None, Some("CA")},
      p \in Priors }

ContainerInputs ==
  { [kind |-> "container", tag |-> tag, written |-> k, declared |-> n,
     prior |-> p] :
      tag \in {"object", "array"}, k \in 0..MaxArity, n \in 0..MaxArity,
      p \in Priors }

\* The JsonValue trees: the decodes of the JSON values of the model.
JsonTrees ==
  { JsonDeserialize(v).val : v \in {u \in JsonInputs : JsonDeserialize(u).ok} }

JsonEncodeInputs ==
  { [kind |-> "json", value |-> x, prior |-> <<>>] : x \in JsonTrees }

OneOfEncodeInputs ==
  { [kind |-> "one_of", value |-> v, prior |-> p] :
      v \in { [variant |-> "DoThis",
               value |-> MapInsert(<<>>, "thisField", "this field")],
              [variant |-> "DoThat",
               value |-> MapInsert(<<>>, "thatField", 42)] },
      p \in Priors }

EncodeInputs ==
  EnumEncodeInputs \cup StructEncodeInputs \cup ContainerInputs
    \cup JsonEncodeInputs \cup OneOfEncodeInputs

\* The generated enumeration's encode applied to the value.
EnumEncode ==
  /\ res = Pending
  /\ arg.kind = "enum"
  /\ res' = [op |-> "enum_serialize",
             w |-> EnumSerialize(arg.value, Writer(arg.prior))]
  /\ UNCHANGED <<arg, lazy, export>>

\* The generated input object's encode applied to the value.
StructEncode ==
  /\ res = Pending
  /\ arg.kind = "struct"
  /\ res' = [op |-> "struct_serialize",
             w |-> StructSerialize(arg.type, arg.value, Writer(arg.prior))]
  /\ UNCHANGED <<arg, lazy, export>>

\* The generated one-of input object's encode applied to the value.
OneOfEncode ==
  /\ res = Pending
  /\ arg.kind = "one_of"
  /\ res' = [op |-> "one_of_serialize",
             w |-> OneOfSerialize(arg.value, Writer(arg.prior))]
  /\ UNCHANGED <<arg, lazy, export>>

\* write_object / write_array called with the closure and the count.
ContainerWrite ==
  /\ res = Pending
  /\ arg.kind = "container"
  /\ res' = [op |-> "write_container",
             w |-> WriteContainer(arg.tag, arg.written, arg.declared,
                                  Writer(arg.prior))]
  /\ UNCHANGED <<arg, lazy, export>>

\* A JsonValue encoded through a fresh Context, the output finalized and
\* handed, as a value, to JsonValue's decode.
JsonRoundTrip ==
  /\ res = Pending
  /\ arg.kind = "json"
  /\ LET w == JsonSerialize(arg.value, Writer(arg.prior))
         output == OutputValue(w.out)
     IN res' = [op |-> "json_round_trip", w |-> w, output |-> output,
                decoded |-> IF w.status = "ok" /\ output.some
                            THEN JsonDeserialize(output.v)
                            ELSE Err(InvalidType)]
  /\ UNCHANGED <<arg, lazy, export>>

InitEncode == InitLazy /\ arg \in EncodeInputs /\ res = Pending

NextEncode ==
  \/ EnumEncode
  \/ StructEncode
  \/ OneOfEncode
  \/ ContainerWrite
  \/ JsonRoundTrip

SpecEncode == InitEncode /\ [][NextEncode]_vars

Init == InitLazy /\ arg = JNull /\ res = Pending

(***************************************************************************)
(* Decimal: a string is decoded with the JSON parser's from_str, asked for *)
(* an f64.  A string is the sequence of its characters.                    *)
(***************************************************************************)
Digits == {"0", "1"}
Whitespace == {" "}
Chars == Digits \cup Whitespace \cup {".", "-", "e"}

\* The character at place i, "" past the end.
PeekAt(s, i) == IF i <= Len(s) THEN s[i] ELSE ""

RECURSIVE ParseWhitespace(_, _), ParseDigits(_, _)
\* The first place from i on that holds no whitespace.
ParseWhitespace(s, i) ==
  IF PeekAt(s, i) \in Whitespace THEN ParseWhitespace(s, i + 1) ELSE i

\* The first place from i on that holds no digit.
ParseDigits(s, i) ==
  IF PeekAt(s, i) \in Digits THEN ParseDigits(s, i + 1) ELSE i

\* The parts of a number, each from place i: the place after the part, or
\* 0 when the number is malformed.
ParseInteger(s, i) ==
  IF PeekAt(s, i) = "0"
  THEN (IF PeekAt(s, i + 1) \in Digits THEN 0 ELSE i + 1)
  ELSE IF PeekAt(s, i) \in Digits THEN ParseDigits(s, i)
  ELSE 0

ParseFraction(s, i) ==
  IF PeekAt(s, i) = "."
  THEN (IF ParseDigits(s, i + 1) = i + 1 THEN 0 ELSE ParseDigits(s, i + 1))
  ELSE i

ParseExponent(s, i) ==
  IF PeekAt(s, i) = "e"
  THEN LET from == IF PeekAt(s, i + 1) = "-" THEN i + 2 ELSE i + 1
       IN IF ParseDigits(s, from) = from THEN 0 ELSE ParseDigits(s, from)
  ELSE i

\* from_str::<f64>: whitespace, one number, whitespace, the end of the
\* input.  The f64 is stood for by the text of the number.
JsonFromStr(s) ==
  LET start == ParseWhitespace(s, 1)
      digits == IF PeekAt(s, start) = "-" THEN start + 1 ELSE start
      int == ParseInteger(s, digits)
      frac == IF int = 0 THEN 0 ELSE ParseFraction(s, int)
      exp == IF frac = 0 THEN 0 ELSE ParseExponent(s, frac)
  IN IF exp # 0 /\ ParseWhitespace(s, exp) = Len(s) + 1
     THEN Ok(SubSeq(s, start, exp - 1))
     ELSE Err("json")

\* TryFrom<String> for Decimal.
DecimalTryFrom(value) ==
  LET parsed == JsonFromStr(value)
  IN IF parsed.ok THEN Ok([decimal |-> parsed.val])
     ELSE Err("Error parsing decimal: invalid float literal")

\* Visitor::string of Place<Decimal>.
PlaceString(s) ==
  LET parsed == JsonFromStr(s)
  IN IF parsed.ok THEN Ok([decimal |-> parsed.val]) ELSE Err("miniserde error")

DecimalInputs == UNION { [1..n -> Chars] : n \in 0..MaxChars }

\* Decimal::try_from applied to the string.
DecimalFromString ==
  /\ res = Pending
  /\ res' = [op |-> "decimal", result |-> DecimalTryFrom(arg)]
  /\ UNCHANGED <<arg, lazy, export>>

\* The miniserde visitor applied to the string.
DecimalVisitString ==
  /\ res = Pending
  /\ res' = [op |-> "decimal", result |-> PlaceString(arg)]
  /\ UNCHANGED <<arg, lazy, export>>

InitDecimal == InitLazy /\ arg \in DecimalInputs /\ res = Pending

NextDecimal ==
  \/ DecimalFromString
  \/ DecimalVisitString

SpecDecimal == InitDecimal /\ [][NextDecimal]_vars

(***************************************************************************)
(* The export wrapper that #[shopify_function] generates around a          *)
(* business function: Context::new, input_get, deserialize, the function,  *)
(* serialize, finalize_output, each result unwrapped with expect.          *)
(***************************************************************************)
\* The host's input: none at all, or a value.
ExportInputs == {Absent} \cup StatusInputs

\* The input types of the wrapped functions: a generated query struct,
\* and a generated input object.
ExportInputTypes == {"Input", "FunctionTargetAResult"}

ExportFunctions ==
  {"target_a", "test_function_none", "target_b", "target_panic",
   "target_error", "target_strategy", "target_strategy_other"}

\* What the business function does with its input.
CallFunction(function, input) ==
  CASE function = "target_a" ->
         [outcome |-> "ok", type |-> "FunctionTargetAResult",
          value |-> [status |-> Some(200)]]
    [] function = "test_function_none" ->
         [outcome |-> "ok", type |-> "FunctionTargetAResult",
          value |-> [status |-> None]]
    [] function = "target_b" ->
         [outcome |-> "ok", type |-> "FunctionTargetBResult",
          value |-> [name |-> Some("new name"), country |-> Some("CA")]]
    [] function = "target_strategy" ->
         [outcome |-> "ok", type |-> "FunctionResult",
          value |-> [discountApplicationStrategy |-> EnumVariantIdent("FIRST")]]
    [] function = "target_strategy_other" ->
         [outcome |-> "ok", type |-> "FunctionResult",
          value |-> [discountApplicationStrategy |-> Other]]
    [] function = "target_error" -> [outcome |-> "err"]
    [] OTHER -> [outcome |-> "panic"]

\* Deserialize of the function's input type.
DeserializeInput(type, root_value) ==
  IF type = "Input"
  THEN Ok([wasm_value |-> root_value])
  ELSE InputObjectDeserialize(root_value)

\* A wrapper that goes on whatever a step returned.
Ignore(ok) == "continue"

\* Result::expect: go on with the value, or panic.
Expect(ok) == IF ok THEN "continue" ELSE "abort"

\* A wrapper body that finalizes before it serializes.
FinalizeFirst(step) ==
  CASE step = "new" -> "input_get"
    [] step = "input_get" -> "deserialize"
    [] step = "deserialize" -> "call"
    [] step = "call" -> "finalize_output"
    [] step = "finalize_output" -> "serialize"
    [] OTHER -> "done"

\* The statement that follows a statement of the wrapper's body.
Following(step) ==
  CASE step = "new" -> "input_get"
    [] step = "input_get" -> "deserialize"
    [] step = "deserialize" -> "call"
    [] step = "call" -> "serialize"
    [] step = "serialize" -> "finalize_output"
    [] OTHER -> "done"

\* The wrapper after a statement that returned: at the next statement, or
\* panicked.
After(step, ok) ==
  IF Expect(ok) = "continue" THEN Following(step) ELSE "aborted"

Logged(step) == [invocation EXCEPT !.log = Append(@, step)]

\* The host calls the export: Context::new.
Enter(input, type, function) ==
  /\ pc = "idle"
  /\ pc' = Following("new")
  /\ context' = [id |-> 1, out |-> <<>>, finalized |-> 0, host |-> <<>>]
  /\ invocation' = [input |-> input, type |-> type, function |-> function,
                    root_value |-> Absent, decoded |-> None, result |-> None,
                    log |-> <<>>]
  /\ UNCHANGED <<lazy, arg, res>>

\* context.input_get().expect(..)
InputGet ==
  /\ pc = "input_get"
  /\ LET ok == invocation.input # Absent
     IN /\ pc' = After("input_get", ok)
        /\ invocation' =
             [Logged("input_get") EXCEPT
                !.root_value = invocation.input]
  /\ UNCHANGED <<lazy, arg, res, context>>

\* Deserialize::deserialize(&root_value).expect(..)
DeserializeRoot ==
  /\ pc = "deserialize"
  /\ LET r == DeserializeInput(invocation.type, invocation.root_value)
     IN /\ pc' = After("deserialize", r.ok)
        /\ invocation' =
             [Logged("deserialize") EXCEPT
                !.decoded = IF r.ok THEN Some(r.val) ELSE None]
  /\ UNCHANGED <<lazy, arg, res, context>>

\* function(input).expect(..); a panic in the function aborts as well.
Call ==
  /\ pc = "call"
  /\ LET r == CallFunction(invocation.function, invocation.decoded)
     IN /\ pc' = IF r.outcome = "panic" THEN "aborted"
                 ELSE After("call", r.outcome = "ok")
        /\ invocation' =
             [Logged("call") EXCEPT
                !.result = IF r.outcome = "ok"
                           THEN Some([type |-> r.type, value |-> r.value])
                           ELSE None]
  /\ UNCHANGED <<lazy, arg, res, context>>

\* Serialize::serialize(&result, &mut context).expect(..): the writes reach
\* the builder up to the one that fails or the panic.
SerializeResult ==
  /\ pc = "serialize"
  /\ LET w == IF invocation.result.some
              THEN StructSerialize(invocation.result.v.type,
                                   invocation.result.v.value,
                                   Writer(context.out))
              ELSE Writer(context.out)
     IN /\ pc' = IF w.status = "panic" THEN "aborted"
                 ELSE After("serialize", w.status = "ok")
        /\ context' = [context EXCEPT !.out = w.out]
  /\ invocation' = Logged("serialize")
  /\ UNCHANGED <<lazy, arg, res>>

\* context.finalize_output().expect(..): the first call commits the writes
\* to the host, a second one is an error.
FinalizeOutput ==
  /\ pc = "finalize_output"
  /\ LET ok == context.finalized = 0
     IN /\ pc' = After("finalize_output", ok)
        /\ context' = [context EXCEPT
                         !.finalized = @ + 1,
                         !.host = IF ok THEN Append(@, context.out) ELSE @]
  /\ invocation' = Logged("finalize_output")
  /\ UNCHANGED <<lazy, arg, res>>

NextExport ==
  \/ \E input \in ExportInputs, type \in ExportInputTypes,
        function \in ExportFunctions : Enter(input, type, function)
  \/ InputGet
  \/ DeserializeRoot
  \/ Call
  \/ SerializeResult
  \/ FinalizeOutput

SpecExport == Init /\ [][NextExport]_vars

(***************************************************************************)
(* The example function: a percentage discount on the product variant     *)
(* lines of the cart whose quantity reaches the configured one.  An f64   *)
(* is held in tenths: 125 stands for 12.5.                                 *)
(***************************************************************************)
MaxLines == 2

\* Config::default
ConfigDefault == [quantity |-> 0, percentage |-> 0]

\* serde_json::from_str::<Config>, as called on the metafield values of
\* the model: both fields are required.
ConfigFromStr(text) ==
  CASE text = "{\"quantity\": 5, \"percentage\": 10}" ->
         Ok([quantity |-> 5, percentage |-> 100])
    [] text = "{\"quantity\": 1, \"percentage\": 12.5}" ->
         Ok([quantity |-> 1, percentage |-> 125])
    [] text = "{\"quantity\": 0, \"percentage\": 0.5}" ->
         Ok([quantity |-> 0, percentage |-> 5])
    [] text = "{\"quantity\": 5, \"percentage\": 0}" ->
         Ok([quantity |-> 5, percentage |-> 0])
    [] OTHER -> Err("serde_json::Error")

DigitString(d) == <<"0", "1", "2", "3", "4", "5", "6", "7", "8", "9">>[d + 1]

RECURSIVE IntegerString(_)
IntegerString(n) ==
  IF n < 10 THEN DigitString(n)
  ELSE IntegerString(n \div 10) \o DigitString(n % 10)

\* f64::to_string: the integral part, and the fraction only when there is
\* one.
F64ToString(x) ==
  IF x % 10 = 0 THEN IntegerString(x \div 10)
  ELSE IntegerString(x \div 10) \o "." \o DigitString(x % 10)

\* The result without discounts.
NoDiscounts == [discount_application_strategy |-> "FIRST", discounts |-> <<>>]

\* A line is kept only above the configured quantity.
AboveQuantity(line, config) == line.quantity > config.quantity

\* The test of the loop over the cart lines.
ReachesQuantity(line, config) == line.quantity >= config.quantity

\* The loop over the cart lines: a target is pushed for a line that
\* passes the test and holds a product variant; any other merchandise
\* continues with the next line.
RECURSIVE TargetsFrom(_, _, _, _)
TargetsFrom(cart_lines, config, k, targets) ==
  IF k > Len(cart_lines) THEN targets
  ELSE LET line == cart_lines[k]
       IN IF ReachesQuantity(line, config)
             /\ line.merchandise.typename = "ProductVariant"
          THEN TargetsFrom(cart_lines, config, k + 1,
                 Append(targets,
                        [product_variant |->
                           Some([id |-> line.merchandise.id, quantity |-> None])]))
          ELSE TargetsFrom(cart_lines, config, k + 1, targets)

\* fn function(input)
Function(input) ==
  LET metafield == input.discount_node.metafield
      parsed == IF metafield.some THEN ConfigFromStr(metafield.v.value)
                ELSE Ok(ConfigDefault)
  IN IF ~parsed.ok THEN parsed
     ELSE LET config == parsed.val
              cart_lines == input.cart.lines
              targets == TargetsFrom(cart_lines, config, 1, <<>>)
          IN IF cart_lines = <<>> \/ config.percentage = 0
             THEN Ok(NoDiscounts)
             ELSE IF targets = <<>>
             THEN Ok(NoDiscounts)
             ELSE Ok([discounts |->
                        << [message |-> None,
                            targets |-> targets,
                            value |->
                              [percentage |->
                                 Some([value |-> F64ToString(config.percentage)]),
                               fixed_amount |-> None]] >>,
                      discount_application_strategy |-> "FIRST"])

Metafields ==
  {None}
    \cup { Some([value |-> text]) :
             text \in {"{\"quantity\": 5, \"percentage\": 10}",
                       "{\"quantity\": 1, \"percentage\": 12.5}",
                       "{\"quantity\": 0, \"percentage\": 0.5}",
                       "{\"quantity\": 5, \"percentage\": 0}",
                       "{\"quantity\": 5}", ""} }

CartLines ==
  { [quantity |-> n, merchandise |-> m] :
      n \in {1, 5},
      m \in {[typename |-> "ProductVariant", id |-> "gid://shopify/ProductVariant/0"],
             [typename |-> "ProductVariant", id |-> "gid://shopify/ProductVariant/1"],
             [typename |-> "CustomProduct"]} }

RECURSIVE SeqsUpTo(_, _)
SeqsUpTo(S, n) ==
  IF n = 0 THEN {<<>>}
  ELSE LET shorter == SeqsUpTo(S, n - 1)
       IN shorter \cup { Append(q, x) : q \in shorter, x \in S }

FunctionInputs ==
  { [kind |-> "input", cart |-> [lines |-> lines],
     discount_node |-> [metafield |-> m]] :
      lines \in SeqsUpTo(CartLines, MaxLines), m \in Metafields }

\* The example function applied to the decoded input.
RunFunction ==
  /\ arg.kind = "input"
  /\ res = Pending
  /\ res' = [op |-> "function", result |-> Function(arg)]
  /\ UNCHANGED <<arg, lazy, export>>

InitExample == InitLazy /\ arg \in FunctionInputs /\ res = Pending

NextExample == RunFunction

SpecExample == InitExample /\ [][NextExample]_vars

Next ==
  \/ \E input \in StoreInputs : NewContext(input)
  \/ \E s \in 1..MaxSteps, o \in 1..2 : Deserialize(s, o)
  \/ \E i \in 1..MaxSteps, f \in Fields : Accessor(i, f)
  \/ \E s \in 1..MaxSteps, what \in {"codes", "line"} : IterDeserialize(s, what)
  \/ \E k \in 1..MaxSteps : IterNext(k)

Spec == Init /\ [][Next]_vars

(***************************************************************************)
(* Properties of the generated accessors and of Iter.                      *)
(***************************************************************************)
InstIds == 1..Len(insts)

RECURSIVE SumOver(_, _, _)
SumOver(counts, f, i) ==
  IF i > Len(counts) THEN 0 ELSE counts[i][f] + SumOver(counts, f, i + 1)

Accessed(i) == {f \in Fields : probe.calls[i][f] >= 1}
Lookups(i, f) == probe.byToken[i][f] + probe.byString[i][f]

\* C1: every lookup-by-token on an object uses a token that the object's
\* own store interned, also when a second Context is decoded in the process.
C1_TokenFromOwnStore ==
  \A i \in InstIds, f \in Fields :
    probe.byToken[i][f] >= 1 => probe.tokenFrom[i][f] = insts[i].store

\* C2: calling the accessor of f once on each of N objects costs one intern
\* call for f, N lookups by token and no lookup by string; every
\* load_from_value after the first is served from the cell.
C2_InternOnceLookupByToken ==
  \A f \in Fields :
    LET loads == SumOver(probe.calls, f, 1)
        n == Cardinality({i \in InstIds : f \in Accessed(i)})
    IN /\ probe.intern[f] = (IF loads >= 1 THEN 1 ELSE 0)
       /\ SumOver(probe.byToken, f, 1) = n
       /\ SumOver(probe.byString, f, 1) = 0

C2_Witness ==
  /\ Len(stores) = 1
  /\ Len(insts) = 2
  /\ insts[1].obj # insts[2].obj
  /\ probe.calls[1]["quantity"] = 1
  /\ probe.calls[2]["quantity"] = 1
  /\ probe.intern["quantity"] = 1
  /\ status = "running"

\* C3: k >= 1 calls of one accessor on one instance perform one lookup and
\* one decode; every call returns the value the first call memoized, and
\* the memoized value is neither recomputed nor cleared.
C3_MemoizedOnce ==
  \A i \in InstIds, f \in Fields :
    /\ Lookups(i, f) = (IF probe.calls[i][f] >= 1 THEN 1 ELSE 0)
    /\ probe.decodes[i][f] <= 1
    /\ probe.returned[i][f] # {} =>
         /\ insts[i].memo[f] # Unset
         /\ probe.decodes[i][f] = 1
         /\ probe.returned[i][f] = {insts[i].memo[f].v}
    /\ (probe.calls[i][f] >= 1 /\ status = "running") =>
         probe.returned[i][f] # {}

C3_Witness ==
  \E i \in InstIds, f \in Fields :
    /\ probe.calls[i][f] >= 3
    /\ Lookups(i, f) = 1
    /\ probe.returned[i][f] = {insts[i].memo[f].v}

\* C4: a decoded struct whose accessors were never called has cost no
\* lookup, no intern call and no field decode and holds empty cells; once
\* k distinct fields were read, k lookups and k decodes were performed.
C4_LazyDecode ==
  /\ \A i \in InstIds :
       LET k == Cardinality(Accessed(i))
           looked == Lookups(i, "quantity") + Lookups(i, "title")
           decoded == probe.decodes[i]["quantity"] + probe.decodes[i]["title"]
       IN /\ looked = k
          /\ decoded <= k
          /\ status = "running" => decoded = k
          /\ k = 0 => \A f \in Fields : insts[i].memo[f] = Unset
  /\ (\A i \in InstIds : Accessed(i) = {}) =>
       /\ \A f \in Fields : probe.intern[f] = 0 /\ cell[f] = Uninit
       /\ \A s \in 1..Len(interned) : interned[s] = <<>>

C4_Witness ==
  \E i, j \in InstIds :
    /\ i # j
    /\ Accessed(i) = {"quantity"}
    /\ Accessed(j) = {}
    /\ status = "running"

\* C5 as stated: a decode failure inside an accessor or inside Iter::next
\* comes back to the caller as an error value, and nothing aborts.
C5_ErrorReturned ==
  /\ \A i \in InstIds, f \in Fields :
       probe.errs[i][f] >= 1 =>
         /\ status = "running"
         /\ ReturnedErr(InvalidType) \in probe.returned[i][f]
  /\ \A k \in 1..Len(iters) :
       iters[k].errs >= 1 => status = "running"

\* C5, amended: a decode failure inside an accessor or inside Iter::next is
\* unwrapped: the call panics, the invocation aborts, no error value reaches
\* the caller and nothing is memoized; every value a call returns is a
\* decoded value.
C5_DecodeFailurePanics ==
  /\ \A i \in InstIds, f \in Fields :
       /\ probe.errs[i][f] >= 1 =>
            /\ status = "panicked"
            /\ insts[i].memo[f] = Unset
       /\ \A r \in probe.returned[i][f] : r # ReturnedErr(InvalidType)
  /\ \A k \in 1..Len(iters) :
       /\ iters[k].errs >= 1 => status = "panicked"
       /\ \A n \in 1..Len(iters[k].out) :
            iters[k].out[n] # Some(ReturnedErr(InvalidType))

C5_Witness ==
  /\ status = "panicked"
  /\ \E i \in InstIds : probe.errs[i]["quantity"] = 1
(***************************************************************************)
(* Properties of the eager decodes.                                        *)
(***************************************************************************)
HasKey(v, key) == v.tag = "object" /\ IndexOf(v.keys, key, 1) # 0
AbsentKey(v, key) == v.tag = "object" /\ IndexOf(v.keys, key, 1) = 0
ValueAt(v, key) == v.vals[IndexOf(v.keys, key, 1)]
ExplicitNull(v, key) == HasKey(v, key) /\ ValueAt(v, key) = JNull
NullOrAbsent(v, key) == AbsentKey(v, key) \/ ExplicitNull(v, key)

\* The same object with key's entry turned from absent into an explicit
\* null, or from an explicit null into absent.
Toggled(v, key) ==
  LET i == IndexOf(v.keys, key, 1)
  IN IF i = 0
     THEN JObj(Append(v.keys, key), Append(v.vals, JNull))
     ELSE JObj(SubSeq(v.keys, 1, i - 1) \o SubSeq(v.keys, i + 1, Len(v.keys)),
               SubSeq(v.vals, 1, i - 1) \o SubSeq(v.vals, i + 1, Len(v.vals)))

Derived == res.op = "derive" /\ arg.tag = "object"

\* Every field but the one under `key` holds a value its type accepts.
OthersValid(key) ==
  /\ key = "fieldC" \/ (HasKey(arg, "fieldC") /\ ValueAt(arg, "fieldC") = JBool(TRUE))
  /\ key = "items" \/ (HasKey(arg, "items") /\ ValueAt(arg, "items").tag = "array")
  /\ \A n \in {"fieldA", "option"} \ {key} :
       NullOrAbsent(arg, n) \/ ValueAt(arg, n).tag = "string"
  /\ key = "fieldB" \/ NullOrAbsent(arg, "fieldB") \/ ValueAt(arg, "fieldB").tag = "number"

\* C6: a field marked `default` is set to its type's Default both when it
\* is explicitly null and when it is absent, and the decode does not fail
\* on it; a present, non-null value is decoded by the field's own type.
C6_DefaultUnifiesNullAndAbsent ==
  Derived =>
    \A d \in { [ident |-> "field_a", key |-> "fieldA", tag |-> "string"],
               [ident |-> "field_b", key |-> "fieldB", tag |-> "number"] } :
      IF NullOrAbsent(arg, d.key)
      THEN /\ res.failed # d.ident
           /\ OthersValid(d.key) => res.result.ok
           /\ res.result.ok =>
                res.result.val[d.ident] = (IF d.ident = "field_a" THEN "" ELSE 0)
      ELSE IF ValueAt(arg, d.key).tag = d.tag
      THEN res.result.ok =>
             res.result.val[d.ident] =
               (IF d.ident = "field_a" THEN ValueAt(arg, d.key).s
                ELSE ValueAt(arg, d.key).n)
      ELSE ~res.result.ok

C6_Witness ==
  /\ Derived
  /\ AbsentKey(arg, "fieldA")
  /\ ExplicitNull(arg, "fieldB")
  /\ res.result.ok
  /\ res.result.val["field_a"] = ""
  /\ res.result.val["field_b"] = 0

\* C7 as stated: a field that is neither `default` nor optional fails the
\* decode with MissingOrInvalidField when it is absent or explicitly null.
C7_MissingOrInvalidField ==
  Derived =>
    \A key \in {"fieldC", "items", "meta"} :
      (NullOrAbsent(arg, key) /\ OthersValid(key)) =>
        res.result = Err(MissingOrInvalidField)

\* C7, amended: such a field is decoded from a Null value by its own type,
\* alike when absent and when explicitly null, and the outcome is
\* propagated unchanged: a type that rejects Null (bool, Iter) fails the
\* decode with InvalidType and no struct is produced; JsonValue accepts
\* it as JsonValue::Null.
C7_RequiredFieldNull ==
  Derived =>
    /\ \A key \in {"fieldC", "items"} :
         NullOrAbsent(arg, key) => res.result = Err(InvalidType)
    /\ NullOrAbsent(arg, "meta") =>
         /\ res.failed # "meta"
         /\ res.result.ok => res.result.val["meta"] = JvNull
    /\ \A key \in {"fieldC", "items", "meta"} :
         NullOrAbsent(arg, key) =>
           res = [op |-> "derive"] @@ DeriveDeserialize(Toggled(arg, key))

C7_Witness ==
  /\ Derived
  /\ AbsentKey(arg, "items")
  /\ OthersValid("items")
  /\ res.failed = "items"
  /\ res.result = Err(InvalidType)

\* C8: an optional field without `default` decodes to None both when it is
\* absent and when it is explicitly null, in the derived decode and in a
\* generated input object's; the two inputs give the same result.
C8_OptionalNullIsNone ==
  /\ (Derived /\ NullOrAbsent(arg, "option")) =>
       /\ res.failed # "option"
       /\ OthersValid("option") => res.result.ok
       /\ res.result.ok => res.result.val["option"] = None
       /\ res = [op |-> "derive"] @@ DeriveDeserialize(Toggled(arg, "option"))
  /\ (res.op = "input_object" /\ arg.tag = "object"
        /\ NullOrAbsent(arg, "status")) =>
       /\ res.result = Ok([status |-> None])
       /\ res.result = InputObjectDeserialize(Toggled(arg, "status"))

C8_Witness ==
  /\ Derived
  /\ ExplicitNull(arg, "option")
  /\ res.result.ok
  /\ res.result.val["option"] = None
\* C9: a `__typename` string that names a known variant runs that
\* variant's decode, and no other, on the same value; any other string
\* gives Ok(Other) with no variant decode run.
C9_UnionDispatch ==
  (res.op = "union" /\ HasKey(arg, "__typename")
     /\ ValueAt(arg, "__typename").tag = "string") =>
    LET name == ValueAt(arg, "__typename").s
    IN IF name \in {"Ok", "Err"}
       THEN /\ res.ran = << [variant |-> name, value |-> arg] >>
            /\ res.result.ok
            /\ res.result.val.variant = name
            /\ res.result.val.wasm_value = arg
       ELSE /\ res.ran = <<>>
            /\ res.result = Ok([variant |-> "Other"])

C9_Witness ==
  /\ res.op = "union"
  /\ HasKey(arg, "__typename")
  /\ ValueAt(arg, "__typename") = JStr("Some")
  /\ res.result = Ok([variant |-> "Other"])

\* C10: the decode of a plain enumeration succeeds on every string: a
\* string equal, case included, to a declared member name gives that
\* member, any other string gives Other; a value that is no string gives a
\* read error.
C10_EnumFromString ==
  res.op = "enum" =>
    IF arg.tag = "string"
    THEN res.result =
           Ok([variant |-> IF arg.s = "FIRST" THEN "First"
                           ELSE IF arg.s = "MAXIMUM" THEN "Maximum"
                           ELSE "Other"])
    ELSE res.result = Err(InvalidType)

C10_Witness ==
  /\ res.op = "enum"
  /\ arg = JStr("first")
  /\ res.result = Ok([variant |-> "Other"])
\* C11: encoding Other panics before any write reaches the Context, so the
\* builder holds what it held before; encoding a declared member writes
\* exactly one string, the member's declared name.
C11_OtherPanicsBeforeWrite ==
  res.op = "enum_serialize" =>
    IF arg.value = [variant |-> "Other"]
    THEN res.w.status = "panic" /\ res.w.out = arg.prior /\ res.w.count = 0
    ELSE /\ res.w.status = "ok"
         /\ res.w.count = 1
         /\ res.w.out =
              Append(arg.prior,
                     [w |-> "str",
                      s |-> IF arg.value.variant = "First" THEN "FIRST"
                            ELSE "MAXIMUM"])

C11_Witness ==
  /\ res.op = "enum_serialize"
  /\ arg.value = [variant |-> "Other"]
  /\ arg.prior # <<>>
  /\ res.w.status = "panic"
\* C12: the decode of a one-of input object succeeds only on an object
\* with exactly one key that is a declared field name, and then gives the
\* matching variant holding the decode of the sole value; a non-object, an
\* object with no key or with two or more, and an object whose sole key is
\* not declared give InvalidType.
C12_OneOfSoleKey ==
  res.op = "one_of" =>
    IF arg.tag = "object" /\ Len(arg.keys) = 1
         /\ arg.keys[1] \in {"doThis", "doThat"}
    THEN LET type == IF arg.keys[1] = "doThis" THEN "This" ELSE "That"
             payload == PayloadDeserialize(type, arg.vals[1])
         IN IF payload.ok
            THEN res.result =
                   Ok([variant |-> IF arg.keys[1] = "doThis" THEN "DoThis"
                                   ELSE "DoThat",
                       value |-> payload.val])
            ELSE ~res.result.ok
    ELSE res.result = Err(InvalidType)

C12_Witness ==
  /\ res.op = "one_of"
  /\ arg.tag = "object"
  /\ Len(arg.keys) = 2
  /\ arg.keys[1] = "doThis"
  /\ arg.vals[1] = JObj(<<"thisField">>, <<JStr("this field")>>)
  /\ res.result = Err(InvalidType)
\* The writes an encode added to the builder.
Added == SubSeq(res.w.out, Len(arg.prior) + 1, Len(res.w.out))

\* The strings written at the odd places of the object that opens Added:
\* the names of its pairs.
PairNames == { Added[2 * k].s : k \in 1..((Len(Added) - 1) \div 2) }

\* C13: the encode of a struct writes a name/value pair for each declared
\* field but skips an optional field whose value is None: its name is not
\* written, and the declared child count is the number of pairs written.
C13_AbsentFieldSkipped ==
  res.op = "struct_serialize" =>
    /\ res.w.status = "ok"
    /\ PairNames = { n \in DOMAIN arg.value : arg.value[n].some }
    /\ Added[1] = [w |-> "object", n |-> Cardinality(PairNames)]
    /\ Len(Added) = 1 + 2 * Cardinality(PairNames)
\* C14: write_object and write_array return ArityMismatch exactly when the
\* closure writes a number of pairs, or of values, other than the declared
\* one; with the declared number the call succeeds and counts as one
\* value written.
C14_ArityMismatch ==
  res.op = "write_container" =>
    IF arg.written = arg.declared
    THEN res.w.status = "ok" /\ res.w.count = 1
    ELSE res.w.status = "ArityMismatch"

C14_Witness ==
  /\ res.op = "write_container"
  /\ arg.tag = "object"
  /\ arg.written = 1
  /\ arg.declared = 2
  /\ res.w.status = "ArityMismatch"
\* The statements of the wrapper's body that have run, in order.
WrapperBody ==
  <<"input_get", "deserialize", "call", "serialize", "finalize_output">>

\* C15: an invocation of the export wrapper that completes has run
\* input_get, the decode of the input, the business function, the encode
\* of the result and finalize_output in this order on its one Context;
\* finalize_output was called exactly once, and the builder holds no write
\* made after it.
C15_WrapperOrder ==
  /\ pc = "done" =>
       /\ invocation.log = WrapperBody
       /\ context.id = 1
       /\ context.finalized = 1
  /\ (pc # "idle" /\ context.finalized > 0) =>
       /\ pc = "done"
       /\ context.host = <<context.out>>

C15_Witness ==
  /\ pc = "done"
  /\ invocation.function = "target_b"
  /\ OutputValue(context.host[1]) =
       Some(JObj(<<"name", "country">>, <<JStr("new name"), JStr("CA")>>))

\* The invocation has a step that fails: no input, an input that does not
\* decode, a function that fails or panics, or a result that does not
\* encode.
SomeStepFails ==
  \/ invocation.input = Absent
  \/ /\ invocation.type = "FunctionTargetAResult"
     /\ invocation.input = JObj(<<"status">>, <<JStr("foo")>>)
  \/ invocation.function \in
       {"target_panic", "target_error", "target_strategy_other"}

\* C16: when a step of the wrapper fails, the invocation aborts and
\* finalize_output is never called; the host sees nothing of an aborted
\* invocation, and what it sees of a completed one is one complete value.
C16_AbortNeverFinalizes ==
  pc # "idle" =>
    /\ pc = "aborted" => (context.finalized = 0 /\ context.host = <<>>)
    /\ SomeStepFails => (pc # "done" /\ context.finalized = 0
                           /\ context.host = <<>>)
    /\ context.host # <<>> =>
         /\ pc = "done"
         /\ Len(context.host) = 1
         /\ OutputValue(context.host[1]).some

C16_Witness ==
  /\ pc = "aborted"
  /\ invocation.function = "target_strategy_other"
  /\ context.out # <<>>
  /\ context.finalized = 0
  /\ context.host = <<>>
\* The decodes of the children of an array or an object, in index order.
ChildDecodes ==
  LET children == IF arg.tag = "array" THEN arg.items ELSE arg.vals
  IN [i \in 1..Len(children) |-> JsonDeserialize(children[i])]

\* C19: the decode of a JsonValue mirrors the value's tag: null, a boolean,
\* a number and a string give Null, Boolean, Number and String; an array
\* of length n gives Array of the n decoded elements in index order; an
\* object gives Object mapping each key to the decode of that key's own
\* child; a value of no such tag gives InvalidType, as does an array or
\* object with a child that gives it.
C19_JsonMirrorsTag ==
  res.op = "json" =>
    CASE arg.tag = "null" -> res.result = Ok([j |-> "Null"])
      [] arg.tag = "bool" -> res.result = Ok([j |-> "Boolean", b |-> arg.b])
      [] arg.tag = "number" -> res.result = Ok([j |-> "Number", n |-> arg.n])
      [] arg.tag = "string" -> res.result = Ok([j |-> "String", s |-> arg.s])
      [] arg.tag = "array" ->
           IF \A i \in DOMAIN ChildDecodes : ChildDecodes[i].ok
           THEN /\ res.result.ok
                /\ res.result.val.j = "Array"
                /\ Len(res.result.val.items) = Len(arg.items)
                /\ \A i \in DOMAIN ChildDecodes :
                     res.result.val.items[i] = ChildDecodes[i].val
           ELSE res.result = Err(InvalidType)
      [] arg.tag = "object" ->
           IF \A i \in DOMAIN ChildDecodes : ChildDecodes[i].ok
           THEN /\ res.result.ok
                /\ res.result.val.j = "Object"
                /\ DOMAIN res.result.val.map = {arg.keys[i] : i \in DOMAIN arg.keys}
                /\ \A i \in DOMAIN arg.keys :
                     res.result.val.map[arg.keys[i]] = ChildDecodes[i].val
           ELSE res.result = Err(InvalidType)
      [] OTHER -> res.result = Err(InvalidType)

C19_Witness ==
  /\ res.op = "json"
  /\ arg = JObj(<<"b", "a">>, <<JArr(<<JNum(1), JNum(2), JNum(3)>>), JNull>>)
  /\ res.result.ok
  /\ res.result.val.map["b"].items[3] = [j |-> "Number", n |-> 3]
  /\ res.result.val.map["a"] = [j |-> "Null"]
AllDigits(s, i, j) == \A k \in i..j : s[k] \in {"0", "1"}

\* s is, in its entirety, one numeric literal: an optional minus, an
\* integer part without a superfluous leading zero, an optional fraction
\* and an optional exponent.
NumericLiteral(s) ==
  LET from == IF Len(s) > 0 /\ s[1] = "-" THEN 2 ELSE 1
  IN \E i \in (from + 1)..(Len(s) + 1), j \in (from + 1)..(Len(s) + 1) :
       /\ i <= j
       /\ AllDigits(s, from, i - 1)
       /\ (i - from > 1) => s[from] # "0"
       /\ j = i \/ (s[i] = "." /\ j > i + 1 /\ AllDigits(s, i + 1, j - 1))
       /\ \/ j = Len(s) + 1
          \/ /\ s[j] = "e"
             /\ LET digits == IF j < Len(s) /\ s[j + 1] = "-" THEN j + 2
                              ELSE j + 1
                IN digits <= Len(s) /\ AllDigits(s, digits, Len(s))

\* C18: the decode of a Decimal from a string that is not, in its
\* entirety, one numeric literal fails and gives no Decimal.
C18_StrictLiteral ==
  (res.op = "decimal" /\ ~NumericLiteral(arg)) => ~res.result.ok
(***************************************************************************)
(* Properties of the property names of derive(Deserialize).                *)
(***************************************************************************)
Renamed(name) == res.op = "rename" /\ res.struct = name /\ arg.tag = "object"
Holds(key, tag) == HasKey(arg, key) /\ ValueAt(arg, key).tag = tag

\* C21: the property a field is read from is the one named by its `rename`
\* when it has one, else the identifier in the struct's rename_all case,
\* else the identifier itself.  The rename wins over rename_all: the decode
\* of a renamed field depends on the property under the rename only, and a
\* property under the rename_all name (or under the identifier) is never
\* looked up.
C21_RenamePrecedence ==
  /\ Renamed("TestStructWithRename") =>
       /\ res.result.ok <=>
            /\ Holds("customFieldName", "string")
            /\ Holds("fieldTwo", "number")
            /\ Holds("ANOTHER_CUSTOM_NAME", "bool")
       /\ res.result.ok =>
            /\ res.result.val["field_one"] = ValueAt(arg, "customFieldName").s
            /\ res.result.val["field_two"] = ValueAt(arg, "fieldTwo").n
            /\ res.result.val["field_three"] = ValueAt(arg, "ANOTHER_CUSTOM_NAME").b
       /\ \A k \in 1..Len(res.looked) :
            res.looked[k] = <<"customFieldName", "fieldTwo", "ANOTHER_CUSTOM_NAME">>[k]
  /\ Renamed("TestStructNoRenameAll") =>
       /\ res.result.ok <=>
            /\ Holds("different_name", "string")
            /\ Holds("unchanged_field", "number")
       /\ res.result.ok =>
            /\ res.result.val["original_name"] = ValueAt(arg, "different_name").s
            /\ res.result.val["unchanged_field"] = ValueAt(arg, "unchanged_field").n
       /\ \A k \in 1..Len(res.looked) :
            res.looked[k] = <<"different_name", "unchanged_field">>[k]

C21_Witness ==
  /\ Renamed("TestStructWithRename")
  /\ Holds("customFieldName", "string")
  /\ Holds("fieldOne", "string")
  /\ res.result.ok
  /\ res.result.val["field_one"] = "correct"
  /\ res.looked = <<"customFieldName", "fieldTwo", "ANOTHER_CUSTOM_NAME">>

(***************************************************************************)
(* Properties of the example function.                                     *)
(***************************************************************************)
FunctionRan == res.op = "function" /\ res.result.ok

\* The configuration of the input: the metafield's, parsed, or the default
\* one without a metafield.
ConfigOf(input) ==
  IF input.discount_node.metafield.some
  THEN ConfigFromStr(input.discount_node.metafield.v.value).val
  ELSE [quantity |-> 0, percentage |-> 0]

\* The product variant lines of the cart with a quantity of at least q, in
\* cart order.
Eligible(input, q) ==
  LET Test(line) == /\ line.merchandise.typename = "ProductVariant"
                    /\ line.quantity >= q
  IN SelectSeq(input.cart.lines, Test)

\* The percentage, in tenths, as a string.
Rendered(p) ==
  CASE p = 100 -> "10"
    [] p = 125 -> "12.5"
    [] p = 5 -> "0.5"
    [] p = 0 -> "0"

IndexedReads == res.op \in {"json", "one_of", "iter"}

\* C23 as stated: every get_at_index(i) call of Iter::next, of JsonValue's
\* decode of an array or of an object, and of the one-of decode has i
\* strictly less than array_len() of the value it is called on.
C23_IndexBelowArrayLen ==
  IndexedReads =>
    \A k \in 1..Len(res.calls) :
      /\ ArrayLen(res.calls[k].on).some
      /\ res.calls[k].index < ArrayLen(res.calls[k].on).v

\* C23, amended: every such call has i strictly less than the number of
\* children of the value it is called on: array_len() for the calls on an
\* array (Iter::next, JsonValue's array loop), obj_len() for the calls on
\* an object (JsonValue's object loop, the one-of decode), whose
\* array_len() is None.  The out-of-range case is never reached.
C23_IndexBelowLen ==
  IndexedReads =>
    \A k \in 1..Len(res.calls) :
      LET on == res.calls[k].on
          i == res.calls[k].index
      IN /\ i >= 0
         /\ IF ArrayLen(on).some THEN i < ArrayLen(on).v
            ELSE ObjLen(on).some /\ i < ObjLen(on).v
         /\ GetAtIndex(on, i) # Trap
         /\ res.op = "iter" => ArrayLen(on).some

C23_Witness ==
  /\ res.op = "json"
  /\ \E k, l \in 1..Len(res.calls) :
       /\ res.calls[k].on = arg
       /\ arg.tag = "object"
       /\ res.calls[k].index = 1
       /\ res.calls[l].on.tag = "array"
       /\ res.calls[l].index = 2

(***************************************************************************)
(* Properties of the sequence iterator.                                    *)
(***************************************************************************)
\* Every element of the iterator's array is a number, which T = i64
\* decodes.
AllDecode(it) ==
  \A j \in 1..Len(it.value.items) : it.value.items[j].tag = "number"

Smaller(a, b) == IF a <= b THEN a ELSE b

\* What the next calls made so far on an iterator returned, given that
\* all its elements decode: the decoded elements from index 0 on, in order,
\* while there are any, and None afterwards.
InOrder(it) ==
  /\ it.len = Len(it.value.items)
  /\ it.index <= it.len
  /\ it.index = Smaller(Len(it.out), it.len)
  /\ \A j \in 1..Len(it.out) :
       it.out[j] = (IF j <= it.len THEN Some(Returned(it.value.items[j].n))
                    ELSE None)

\* A step leaves an exhausted iterator's index and len as they are, and a
\* next call on it returns None.
ExhaustedStays ==
  \A k \in 1..Len(iters) :
    (AllDecode(iters[k]) /\ iters[k].index >= iters[k].len) =>
      /\ iters'[k].index = iters[k].index
      /\ iters'[k].len = iters[k].len
      /\ iters'[k].out \in {iters[k].out, Append(iters[k].out, None)}

\* C24: an Iter decoded from an array of n elements that all decode
\* returns, over successive next calls, the decoded elements at indices
\* 0..n-1 in order and None on every later call; index never exceeds len,
\* and a next call on an exhausted iterator leaves index and len unchanged.
C24_IterInOrder ==
  /\ [](\A k \in 1..Len(iters) : AllDecode(iters[k]) => InOrder(iters[k]))
  /\ [][ExhaustedStays]_vars

C24_Witness ==
  \E k \in 1..Len(iters) :
    /\ iters[k].len = 2
    /\ iters[k].index = 2
    /\ Len(iters[k].out) = 4
    /\ iters[k].out[2] = Some(Returned(8))
    /\ iters[k].out[4] = None

(***************************************************************************)
(* Properties of the memo cells of two instances.                          *)
(***************************************************************************)
\* The decode of field f of the object instance i was decoded from.
OwnValue(i, f) ==
  LET root == stores[insts[i].store].lines[insts[i].obj]
  IN Returned(DeserializePrim(FieldType(f), ValueAt(root, f)).val)

\* C25: the memoized values are per instance although the token is shared
\* by the process: with instances decoded from different objects of the
\* one store of the process, every accessor call returns the value decoded
\* from the object its own instance was decoded from, and so does every
\* filled cell, whatever the order of the calls on the instances.
C25_MemoPerInstance ==
  Len(stores) = 1 =>
    \A i \in InstIds, f \in Fields :
      /\ \A r \in probe.returned[i][f] : r = OwnValue(i, f)
      /\ insts[i].memo[f] # Unset => insts[i].memo[f].v = OwnValue(i, f)

C25_Witness ==
  /\ Len(stores) = 1
  /\ \E i, j \in InstIds :
       /\ insts[i].store = insts[j].store
       /\ insts[i].obj # insts[j].obj
       /\ probe.calls[i]["quantity"] = 2
       /\ probe.calls[j]["quantity"] = 2
       /\ probe.intern["quantity"] = 1
       /\ probe.returned[i]["quantity"] = {Returned(1)}
       /\ probe.returned[j]["quantity"] = {Returned(2)}

(***************************************************************************)
(* Properties of the discriminator of a union.                             *)
(***************************************************************************)
\* The value holds no string under `__typename`: the key is absent, or its
\* value is null or of another type, or the value is no object.
NoTypename(v) ==
  \/ v.tag # "object"
  \/ AbsentKey(v, "__typename")
  \/ ValueAt(v, "__typename").tag # "string"

\* C26: the decode of a union value whose `__typename` is absent, null or
\* not a string gives a read error: it does not give Other, and no
\* variant's decode is run.
C26_TypenameRequired ==
  (res.op = "union" /\ NoTypename(arg)) =>
    /\ ~res.result.ok
    /\ res.result = Err(InvalidType)
    /\ res.ran = <<>>

C26_Witness ==
  /\ res.op = "union"
  /\ ExplicitNull(arg, "__typename")
  /\ HasKey(arg, "value")
  /\ res.result = Err(InvalidType)
  /\ res.ran = <<>>

(***************************************************************************)
(* Properties of the child counts the encoders declare.                    *)
(***************************************************************************)
Encoded == res.op \in {"struct_serialize", "one_of_serialize", "json_round_trip"}

DistinctKeys(v) ==
  \A i, j \in 1..Len(v.keys) : i # j => v.keys[i] # v.keys[j]

\* The object with the same entries, enumerated in the order p.
Permuted(v, p) ==
  JObj([i \in 1..Len(v.keys) |-> v.keys[p[i]]],
       [i \in 1..Len(v.keys) |-> v.vals[p[i]]])

\* C28: the JsonValue decoded from an object does not depend on the order
\* in which the object enumerates its keys: every object with the same
\* keys, all distinct, and the same value under each key decodes to the
\* same result.
C28_KeyOrderIrrelevant ==
  (res.op = "json" /\ arg.tag = "object" /\ DistinctKeys(arg)) =>
    \A p \in Permutations(1..Len(arg.keys)) :
      JsonDeserialize(Permuted(arg, p)) = res.result

C28_Witness ==
  /\ res.op = "json"
  /\ arg = JObj(<<"b", "a">>, <<JNum(123), JStr("string")>>)
  /\ res.result.ok
  /\ res.result = JsonDeserialize(JObj(<<"a", "b">>, <<JStr("string"), JNum(123)>>))
  /\ DOMAIN res.result.val.map = {"a", "b"}

(***************************************************************************)
(* Properties of the order of the derived decode.                          *)
(***************************************************************************)
DeclaredNames == <<"fieldA", "fieldB", "fieldC", "option", "items", "meta">>
DeclaredIdents == <<"field_a", "field_b", "field_c", "option", "items", "meta">>

\* The tag of what get_obj_prop gives for the k-th declared field.
PropTag(k) ==
  IF HasKey(arg, DeclaredNames[k]) THEN ValueAt(arg, DeclaredNames[k]).tag
  ELSE "null"

\* The k-th declared field decodes or is defaulted: a defaulted String and
\* a defaulted i32, a bool, an optional String, a sequence, a JsonValue.
FieldDecodes(k) ==
  CASE k = 1 -> PropTag(k) \in {"null", "string"}
    [] k = 2 -> PropTag(k) \in {"null", "number"}
    [] k = 3 -> PropTag(k) = "bool"
    [] k = 4 -> PropTag(k) \in {"null", "string"}
    [] k = 5 -> PropTag(k) = "array"
    [] OTHER -> PropTag(k) # "other"

FailingFields == { k \in 1..Len(DeclaredNames) : ~FieldDecodes(k) }

\* C29: the derived decode looks up and decodes the declared fields in
\* declaration order.  When a field fails, the decode returns that field's
\* error and no struct, and no later field was looked up; it returns a
\* struct, with every field, only when every field decoded or was
\* defaulted.
C29_AllOrNothing ==
  res.op = "derive" =>
    IF FailingFields = {}
    THEN /\ res.result.ok
         /\ DOMAIN res.result.val = {DeclaredIdents[k] : k \in 1..Len(DeclaredIdents)}
         /\ res.looked = DeclaredNames
         /\ res.failed = ""
    ELSE LET first == CHOOSE k \in FailingFields : \A n \in FailingFields : k <= n
         IN /\ res.result = Err(InvalidType)
            /\ res.failed = DeclaredIdents[first]
            /\ res.looked = SubSeq(DeclaredNames, 1, first)

C29_Witness ==
  /\ res.op = "derive"
  /\ arg.tag = "object"
  /\ FailingFields = {3, 5}
  /\ HasKey(arg, "option")
  /\ HasKey(arg, "meta")
  /\ res.result = Err(InvalidType)
  /\ res.failed = "field_c"
  /\ res.looked = <<"fieldA", "fieldB", "fieldC">>

(***************************************************************************)
(* Properties of the round trip of a plain enumeration.                    *)
(***************************************************************************)
DeclaredMembers == {[variant |-> "First"], [variant |-> "Maximum"]}

\* C30: for every declared member m of a generated enumeration,
\* from_str(as_str(m)) is m, and the decode of the string that the encode
\* of m writes is m, never Other; two distinct members are written as
\* distinct strings.
C30_EnumRoundTrip ==
  (res.op = "enum_serialize" /\ arg.value \in DeclaredMembers) =>
    /\ ~AsStr(arg.value).panic
    /\ FromStr(AsStr(arg.value).str) = arg.value
    /\ res.w.status = "ok"
    /\ OutputValue(Added).some
    /\ OutputValue(Added).v.tag = "string"
    /\ EnumDeserialize(OutputValue(Added).v) = Ok(arg.value)
    /\ \A m \in DeclaredMembers \ {arg.value} :
         EnumSerialize(m, Writer(arg.prior)).out # res.w.out

C30_Witness ==
  /\ res.op = "enum_serialize"
  /\ arg.value = [variant |-> "Maximum"]
  /\ Added = << [w |-> "str", s |-> "MAXIMUM"] >>
  /\ EnumDeserialize(JStr("MAXIMUM")) = Ok(arg.value)

====
